---------------------------- MODULE Spec2Model ----------------------------
(***************************************************************************)
(* Wave6 video encoder instance (drivers/mxc/vpu/wave6/wave6-vpu-enc.c):   *)
(* the instance lifecycle NONE -> OPEN -> INIT_SEQ -> PIC_RUN -> STOP, the *)
(* encode cycle that pairs one input with one output buffer, and the       *)
(* completion handler.  The mem2mem job scheduler, the vb2 queue flags and *)
(* the helpers of wave6-vpu-v4l2.c are outside the encoder file; they are  *)
(* modelled by their interface and named as such where they appear.        *)
(***************************************************************************)
EXTENDS Integers, Sequences, FiniteSets, TLC

(* ------------------------------ bounds --------------------------------- *)
\* vb2 buffer indices of the input (OUTPUT) queue: 0 .. NumSrcBufs-1
NumSrcBufs == 2
\* vb2 buffer indices of the bitstream (CAPTURE) queue: 0 .. NumDstBufs-1
NumDstBufs == 2
\* input buffers queued per streaming session (caps queued_src_buf_num)
MaxQueued == 2
\* input buffers of the drain scenario
ScenarioInputs == 3
\* frame buffers the firmware asks for at sequence init
MinFbCount == 2
\* motion-vector buffers the firmware asks for at sequence init
ReqMvCount == 1

(* --------------------------- program values ---------------------------- *)
\* reserved recon index: the firmware's drain marker
RECON_IDX_FLAG_ENC_END == -1
\* another reserved recon index (no picture produced)
RECON_IDX_FLAG_OTHER == -2
\* a bitstream address that belongs to no output buffer
NoAddr == -1
\* absent buffer (NULL)
NoBuf == -1

States == {"NONE", "OPEN", "INIT_SEQ", "PIC_RUN", "STOP"}
AuxTypes == {"FBC_Y_TBL", "FBC_C_TBL", "MV_COL", "SUB_SAMPLE"}
SrcIdx == 0 .. (NumSrcBufs - 1)
DstIdx == 0 .. (NumDstBufs - 1)

VARIABLES
    opened,             \* a file handle (instance) exists
    state,              \* inst->state
    eos,                \* inst->eos
    error_recovery,     \* inst->error_recovery
    sequence,           \* inst->sequence
    processed_buf_num,  \* inst->processed_buf_num
    error_buf_num,      \* inst->error_buf_num
    queued_src_buf_num, \* inst->queued_src_buf_num
    src_q,              \* m2m ready queue of input buffers: [idx, consumed,
                        \*   picks: requests it was selected for since queued]
    dst_q,              \* m2m ready queue of output buffers, likewise
    src_lost,           \* input buffers taken off the queue and not returned
    src_streaming,      \* vb2_is_streaming(src_vq)
    dst_streaming,      \* vb2_is_streaming(dst_vq)
    src_buffered,       \* v4l2_m2m_set_src_buffered
    src_error,          \* vb2_queue_error(src_vq)
    dst_error,          \* vb2_queue_error(dst_vq)
    ar_vbuf,            \* inst->ar_vbuf allocated
    frame_vbuf,         \* number of inst->frame_vbuf[] allocated
    aux_vbuf,           \* number of inst->aux_vbuf[type][] allocated, per type
    job_running,        \* the m2m job of this instance is running
    pending,            \* picture requests handed to firmware, not yet finished
    irq,                \* completion event raised by firmware, not yet handled
    ss,                 \* position of a running start_streaming call
    done,               \* buffers given back (v4l2_m2m_buf_done) by the last step
    run_seen,           \* PIC_RUN or STOP was reached since the state was NONE
    closed,             \* result of wave6_vpu_enc_close in the last step, if called
    releasing,          \* wave6_vpu_enc_release of the file handle is under way
    dev_locked,         \* the driver's last step ran with inst->dev->dev_lock held
    drained,            \* the drain marker was handled since a queue last stopped
    fmt,                \* formats, crop, codec rectangle, ROI geometry, mode and map
    buf_map             \* the ROI map of each input buffer

inst_vars == <<state, eos, error_recovery, sequence, processed_buf_num,
               error_buf_num, queued_src_buf_num>>
queue_vars == <<src_q, dst_q, src_lost, src_streaming, dst_streaming,
                src_buffered, src_error, dst_error>>
res_vars == <<ar_vbuf, frame_vbuf, aux_vbuf>>
job_vars == <<job_running, pending, irq>>
geo_vars == <<fmt, buf_map>>
vars == <<opened, inst_vars, queue_vars, res_vars, job_vars, ss, done,
          run_seen, closed, releasing, dev_locked, drained, geo_vars>>

None == [kind |-> "none"]
SsIdle == [pc |-> "idle", q |-> "none", ret |-> 0]
NoAux == [t \in AuxTypes |-> 0]

(* ------------------------------ locking -------------------------------- *)
\* a step of an operation that runs with dev_lock held (b) or not; only
\* release changes "releasing"
LockHeld(b) == dev_locked' = b /\ UNCHANGED releasing

\* ioctls and the vb2 queue operations they reach run under the lock of the
\* video device and of the two queues, which is dev_lock
IoctlLocked == TRUE

\* the job worker (start_process) and the interrupt thread (finish_process)
\* take the per-device lock to change the instance
StartProcessLocked == TRUE
FinishProcessLocked == TRUE

(* ------------------- formats, crop and ROI geometry -------------------- *)
\* values of the driver's configuration header
W6_ENC_CROP_X_POS_STEP == 32
W6_ENC_CROP_Y_POS_STEP == 2
W6_ENC_PIC_SIZE_STEP == 8
W6_ENC_CROP_STEP == 2
W6_MIN_ENC_PIC_WIDTH == 256
W6_MIN_ENC_PIC_HEIGHT == 128
W6_MAX_ENC_PIC_WIDTH == 8192
W6_MAX_ENC_PIC_HEIGHT == 8192
W6_DEF_ENC_PIC_WIDTH == 416
W6_DEF_ENC_PIC_HEIGHT == 240
W6_ENC_CTU_WIDTH_ALIGNMENT == 64

\* kernel rounding macros; on a negative s32 they round towards minus
\* infinity, as the bit masks of the macros do
round_down(x, s) == (x \div s) * s
round_up(x, s) == ((x + s - 1) \div s) * s
DIV_ROUND_UP(n, d) == (n + d - 1) \div d

\* A u32 is carried as the integer that has the same 32 bits as an s32: a
\* value of 2^31 or more is the negative integer 2^32 below it.  Sums and
\* differences of the sizes used here stay inside that range, so they are
\* the same bits in both readings; the unsigned order differs from the
\* signed one and is u32_less.
u32_less(a, b) == IF (a < 0) = (b < 0) THEN a < b ELSE b < 0

\* clamp() of three u32 values
clamp_u32(val, lo, hi) ==
    LET m == IF u32_less(val, lo) THEN lo ELSE val
    IN  IF u32_less(hi, m) THEN hi ELSE m

Rect(l, t, w, h) == [left |-> l, top |-> t, width |-> w, height |-> h]

\* variant of wave6_update_crop_info: the codec size is the rounded crop
\* size, without the distance the origin was moved by
wave6_update_crop_info_plain_size(f, left, top, width, height) ==
    [f EXCEPT !.crop = Rect(left, top, width, height),
              !.codec_rect =
                  Rect(round_down(left, W6_ENC_CROP_X_POS_STEP),
                       round_down(top, W6_ENC_CROP_Y_POS_STEP),
                       round_up(width, W6_ENC_PIC_SIZE_STEP),
                       round_up(height, W6_ENC_PIC_SIZE_STEP))]

\* wave6_update_crop_info: stores the crop rectangle and derives the codec
\* rectangle from it
wave6_update_crop_info(f, left, top, width, height) ==
    LET cl == round_down(left, W6_ENC_CROP_X_POS_STEP)
        ct == round_down(top, W6_ENC_CROP_Y_POS_STEP)
        enc_pic_width == width + left - cl
        enc_pic_height == height + top - ct
    IN  [f EXCEPT !.crop = Rect(left, top, width, height),
                  !.codec_rect =
                      Rect(cl, ct,
                           round_up(enc_pic_width, W6_ENC_PIC_SIZE_STEP),
                           round_up(enc_pic_height, W6_ENC_PIC_SIZE_STEP))]

\* struct vpu_roi_map_info of a zeroed instance
ZeroRoi ==
    [ctu |-> [width |-> 0, height |-> 0], group |-> [width |-> 0, height |-> 0],
     num_ctu_col |-> 0, num_ctu_row |-> 0, num_ctu |-> 0,
     num_group_col |-> 0, num_group_row |-> 0, custom_map_size |-> 0]

\* wave6_vpu_enc_get_roi_info
wave6_vpu_enc_get_roi_info(std, width, height) ==
    LET ctu == IF std = "W_AVC_ENC" THEN [width |-> 16, height |-> 16]
               ELSE [width |-> 32, height |-> 32]
        group == IF std = "W_AVC_ENC" THEN [width |-> 1, height |-> 1]
                 ELSE [width |-> 2, height |-> 2]
        num_ctu_col == DIV_ROUND_UP(width, ctu.width)
        num_ctu_row == DIV_ROUND_UP(height, ctu.height)
        grp_width == ctu.width * group.width
        grp_height == ctu.height * group.height
        num_group_col ==
            DIV_ROUND_UP(round_up(width, W6_ENC_CTU_WIDTH_ALIGNMENT), grp_width)
        num_group_row == DIV_ROUND_UP(height, grp_height)
    IN  [ctu |-> ctu, group |-> group,
         num_ctu_col |-> num_ctu_col, num_ctu_row |-> num_ctu_row,
         num_ctu |-> num_ctu_col * num_ctu_row,
         num_group_col |-> num_group_col, num_group_row |-> num_group_row,
         custom_map_size |->
             (num_group_col * num_group_row) * (group.width * group.height)]

\* variant of wave6_vpu_enc_get_internal_ctu_count: the number of CTUs
wave6_vpu_enc_get_internal_ctu_count_ctus(std, width, height) ==
    wave6_vpu_enc_get_roi_info(std, width, height).num_ctu

\* wave6_vpu_enc_get_internal_ctu_count
wave6_vpu_enc_get_internal_ctu_count(std, width, height) ==
    wave6_vpu_enc_get_roi_info(std, width, height).custom_map_size

\* The content of the instance ROI map (inst->custom_qp_map) is qp_map: 0
\* when the map is all zero, p > 0 when the user map p was written into the
\* CTU cells of the geometry roi_info since the map was last zeroed.

\* variant of wave6_vpu_enc_set_roi_info: the map is zeroed on every call
wave6_vpu_enc_set_roi_info_always_zeroes(f) ==
    [f EXCEPT !.roi_info = wave6_vpu_enc_get_roi_info(f.std, f.codec_rect.width,
                                                      f.codec_rect.height),
              !.qp_map = 0]

\* variant of wave6_vpu_enc_set_roi_info: the geometry is taken over, the
\* map is left as it is
wave6_vpu_enc_set_roi_info_keeps_map(f) ==
    [f EXCEPT !.roi_info = wave6_vpu_enc_get_roi_info(f.std, f.codec_rect.width,
                                                      f.codec_rect.height)]

\* variant of wave6_vpu_enc_set_roi_info: nothing is recomputed
wave6_vpu_enc_set_roi_info_skipped(f) == f

\* wave6_vpu_enc_set_roi_info: recomputes the ROI geometry of the codec
\* rectangle; a geometry that differs from the stored one is stored and the
\* instance ROI map is zeroed
wave6_vpu_enc_set_roi_info(f) ==
    LET roi == wave6_vpu_enc_get_roi_info(f.std, f.codec_rect.width,
                                          f.codec_rect.height)
    IN  IF roi # f.roi_info
        THEN [f EXCEPT !.roi_info = roi, !.qp_map = 0]
        ELSE f

\* wave6_vpu_enc_set_roi_map: the offset in the instance map at which the
\* value of the CTU in row i and column j is written
RoiMapOffset(roi, i, j) ==
    LET sub_index == roi.group.width * (i % roi.group.height)
                        + (j % roi.group.width)
        index == roi.num_group_col * (i \div roi.group.height)
                        + (j \div roi.group.width)
    IN  index * roi.group.width * roi.group.height + sub_index

\* inst->custom_qp_map.size, the size of the instance map allocated at open
custom_qp_map_size ==
    wave6_vpu_enc_get_internal_ctu_count("W_AVC_ENC", W6_MAX_ENC_PIC_WIDTH,
                                         W6_MAX_ENC_PIC_HEIGHT)

\* wave6_vpu_enc_set_roi_map: a user map of count elements is written into
\* the instance map when count is the number of CTUs of the geometry
wave6_vpu_enc_set_roi_map(f, user_map, count) ==
    IF count # f.roi_info.num_ctu THEN f ELSE [f EXCEPT !.qp_map = user_map]

\* wave6_update_pix_fmt, as far as width and height go
wave6_update_pix_fmt(pix, width, height) ==
    [pix EXCEPT !.width = width, !.height = height]

\* wave6_to_codec_std for the two bitstream formats of the encoder
wave6_to_codec_std(pixelformat) ==
    IF pixelformat = "H264" THEN "W_AVC_ENC"
    ELSE IF pixelformat = "HEVC" THEN "W_HEVC_ENC"
    ELSE "STD_UNKNOWN"

\* wave6_vpu_enc_try_fmt_cap: the format the call answers with; known says
\* whether the requested pixel format is one of the encoder's
wave6_vpu_enc_try_fmt_cap(f, known, pixelformat, width, height) ==
    IF ~known
    THEN [pixelformat |-> f.dst_fmt.pixelformat,
          width |-> f.dst_fmt.width, height |-> f.dst_fmt.height]
    ELSE [pixelformat |-> pixelformat, width |-> width, height |-> height]

\* wave6_vpu_enc_s_fmt_cap
wave6_vpu_enc_s_fmt_cap(f, known, pixelformat, width, height) ==
    LET pix_mp == wave6_vpu_enc_try_fmt_cap(f, known, pixelformat, width, height)
        std == wave6_to_codec_std(pix_mp.pixelformat)
    IN  IF std = "STD_UNKNOWN" THEN [f EXCEPT !.std = std]
        ELSE wave6_vpu_enc_set_roi_info(
                 [f EXCEPT !.std = std, !.dst_fmt = pix_mp])

\* wave6_vpu_enc_try_fmt_out: width and height of the answer
wave6_vpu_enc_try_fmt_out(f, known, width, height) ==
    IF ~known
    THEN [width |-> f.src_fmt.width, height |-> f.src_fmt.height]
    ELSE [width |-> clamp_u32(width, W6_MIN_ENC_PIC_WIDTH, W6_MAX_ENC_PIC_WIDTH),
          height |-> clamp_u32(height, W6_MIN_ENC_PIC_HEIGHT,
                               W6_MAX_ENC_PIC_HEIGHT)]

\* wave6_vpu_enc_s_fmt_out
wave6_vpu_enc_s_fmt_out(f, known, width, height) ==
    LET pix_mp == wave6_vpu_enc_try_fmt_out(f, known, width, height)
        f1 == [f EXCEPT !.src_fmt = pix_mp,
                        !.dst_fmt = wave6_update_pix_fmt(@, pix_mp.width,
                                                         pix_mp.height)]
    IN  wave6_vpu_enc_set_roi_info(
            wave6_update_crop_info(f1, 0, 0, pix_mp.width, pix_mp.height))

\* wave6_vpu_enc_try_fmt_out, the YCbCr encoding and quantization of the
\* answer
try_fmt_out_colorimetry(ycbcr_enc, quantization) ==
    LET enc == IF ycbcr_enc = "BT2020_CONST_LUM" THEN "BT2020" ELSE ycbcr_enc
    IN  [ycbcr_enc |-> enc,
         quantization |->
             IF enc \in {"XV601", "XV709"} /\ quantization = "FULL_RANGE"
             THEN "LIM_RANGE" ELSE quantization]

\* wave6_vpu_enc_s_fmt_out for a raw format the table knows, with the pixel
\* format class and the colorimetry of the request
s_fmt_out_colorimetry(f, rgb, width, height, ycbcr_enc, quantization) ==
    LET pix_mp == try_fmt_out_colorimetry(ycbcr_enc, quantization)
    IN  [wave6_vpu_enc_s_fmt_out(f, TRUE, width, height) EXCEPT
            !.src_rgb = rgb,
            !.ycbcr_enc = pix_mp.ycbcr_enc,
            !.quantization = pix_mp.quantization]

\* the csc fields of a picture request after memset: no format order
\* assigned (rgb), nine coefficients and three offsets of 0
NoCsc ==
    [rgb |-> FALSE, coef |-> <<0, 0, 0, 0, 0, 0, 0, 0, 0>>,
     offset |-> <<0, 0, 0>>]

\* wave6_set_csc: coef is <<ry, gy, by, rcb, gcb, bcb, rcr, gcr, bcr>>,
\* offset is <<y, cb, cr>>; a coefficient written 0xffffffxx is the negative
\* 32-bit number with these bits
wave6_set_csc(f) ==
    LET full == f.quantization = "FULL_RANGE"
        lim == f.quantization = "LIM_RANGE"
        y == IF f.src_rgb = "RGB10" THEN 64 ELSE 16
        c == IF f.src_rgb = "RGB10" THEN 512 ELSE 128
        set(coef, oy, oc) ==
            [rgb |-> TRUE, coef |-> coef, offset |-> <<oy, oc, oc>>]
        none == [NoCsc EXCEPT !.rgb = TRUE]
    IN  IF f.src_rgb = "NO" THEN NoCsc
        ELSE IF f.ycbcr_enc \in {"DEFAULT", "601"} THEN
            IF full
            THEN set(<<153, 301, 58, -86, -170, 256, 256, -214, -42>>, 0, c)
            ELSE set(<<132, 258, 50, -76, -148, 224, 224, -188, -36>>, y, c)
        ELSE IF f.ycbcr_enc = "709" THEN
            IF full
            THEN set(<<109, 366, 37, -59, -197, 256, 256, -233, -23>>, 0, c)
            ELSE set(<<94, 315, 32, -52, -173, 225, 225, -204, -21>>, y, c)
        ELSE IF f.ycbcr_enc = "BT2020" THEN
            IF full
            THEN set(<<135, 347, 30, -71, -185, 256, 256, -235, -21>>, 0, c)
            ELSE set(<<116, 298, 26, -63, -162, 225, 225, -207, -18>>, y, c)
        ELSE IF f.ycbcr_enc = "SMPTE240M" THEN
            IF full
            THEN set(<<109, 359, 44, -59, -197, 256, 256, -228, -28>>, 0, c)
            ELSE set(<<93, 308, 38, -52, -173, 225, 225, -200, -25>>, y, c)
        ELSE IF f.ycbcr_enc = "XV601" THEN
            IF lim
            THEN set(<<131, 257, 50, -76, -148, 224, 224, -188, -36>>, y, 0)
            ELSE none
        ELSE IF f.ycbcr_enc = "XV709" THEN
            IF lim
            THEN set(<<93, 313, 32, -51, -173, 224, 224, -203, -21>>, y, 0)
            ELSE none
        ELSE none

\* the rectangle of a selection request after the rounding its flags ask for
\* (none of the two flags is taken as LE; both flags round up, then down)
SelectionRounded(flags, r) ==
    LET fl == IF flags \cap {"GE", "LE"} = {} THEN flags \cup {"LE"} ELSE flags
        r1 == IF "GE" \in fl
              THEN Rect(round_up(r.left, W6_ENC_CROP_STEP),
                        round_up(r.top, W6_ENC_CROP_STEP),
                        round_up(r.width, W6_ENC_CROP_STEP),
                        round_up(r.height, W6_ENC_CROP_STEP))
              ELSE r
    IN  IF "LE" \in fl
        THEN Rect(round_down(r1.left, W6_ENC_CROP_STEP),
                  round_down(r1.top, W6_ENC_CROP_STEP),
                  round_down(r1.width, W6_ENC_CROP_STEP),
                  round_down(r1.height, W6_ENC_CROP_STEP))
        ELSE r1

\* variant of wave6_vpu_enc_s_selection's test of a request: a rounded
\* rectangle of no width or height is applied as well
SelectionAppliedAnySize(f, r) ==
    /\ ~u32_less(f.src_fmt.width - r.left, W6_MIN_ENC_PIC_WIDTH)
    /\ ~u32_less(f.src_fmt.height - r.top, W6_MIN_ENC_PIC_HEIGHT)

\* wave6_vpu_enc_s_selection applies a rounded rectangle r when it has a
\* width and a height and the room from its origin to the right and lower
\* edge of the source (max_crop_w, max_crop_h, both u32) is a minimum picture
SelectionApplied(f, r) ==
    /\ r.width # 0 /\ r.height # 0
    /\ ~u32_less(f.src_fmt.width - r.left, W6_MIN_ENC_PIC_WIDTH)
    /\ ~u32_less(f.src_fmt.height - r.top, W6_MIN_ENC_PIC_HEIGHT)

\* wave6_vpu_enc_s_selection for a crop request on the input queue (valid;
\* any other request is refused with -EINVAL)
wave6_vpu_enc_s_selection(f, valid, flags, rect) ==
    IF ~valid THEN [ret |-> -22, applied |-> FALSE, fmt |-> f]
    ELSE
        LET r == SelectionRounded(flags, rect)
            max_crop_w == f.src_fmt.width - r.left
            max_crop_h == f.src_fmt.height - r.top
        IN  IF ~SelectionApplied(f, r)
            THEN [ret |-> 0, applied |-> FALSE, fmt |-> f]
            ELSE
                LET w == clamp_u32(r.width, W6_MIN_ENC_PIC_WIDTH, max_crop_w)
                    h == clamp_u32(r.height, W6_MIN_ENC_PIC_HEIGHT, max_crop_h)
                    f1 == [f EXCEPT !.dst_fmt = wave6_update_pix_fmt(@, w, h)]
                IN  [ret |-> 0, applied |-> TRUE,
                     fmt |-> wave6_vpu_enc_set_roi_info(
                                 wave6_update_crop_info(f1, r.left, r.top, w, h))]

\* format and ROI fields of an instance after wave6_vpu_open_enc: the default
\* formats, the crop of the whole default picture, ROI mode off, a zeroed
\* ROI map and the ROI geometry of the default picture.  std is 0 in a new
\* instance, a value other than W_AVC_ENC.  Of enc_ctrls it holds the pending
\* key-frame request and the mirror direction, and with them the values the
\* two flip controls were last written with (hflip, vflip).  src_rgb says
\* whether the pixel format of the source is an RGB format of 8 or of 10 bits
\* (is_rgb, is_10bit of its table entry); the default source format is the
\* first raw format, YUV420.
OpenFmt ==
    LET pix == [width |-> W6_DEF_ENC_PIC_WIDTH, height |-> W6_DEF_ENC_PIC_HEIGHT]
        f0 == [std |-> "0",
               src_fmt |-> pix,
               dst_fmt |-> [pixelformat |-> "HEVC",
                            width |-> W6_DEF_ENC_PIC_WIDTH,
                            height |-> W6_DEF_ENC_PIC_HEIGHT],
               crop |-> Rect(0, 0, 0, 0), codec_rect |-> Rect(0, 0, 0, 0),
               roi_info |-> ZeroRoi, roi_mode |-> "NONE", qp_map |-> 0,
               force_key_frame |-> FALSE, mirror_direction |-> 0,
               hflip |-> 0, vflip |-> 0,
               src_rgb |-> "NO", ycbcr_enc |-> "DEFAULT",
               quantization |-> "DEFAULT"]
    IN  wave6_vpu_enc_set_roi_info(
            wave6_update_crop_info(f0, 0, 0, W6_DEF_ENC_PIC_WIDTH,
                                   W6_DEF_ENC_PIC_HEIGHT))

\* the ROI map of an input buffer (vpu_buf->custom_qp_map): allocated or not,
\* its size, the copy it holds (data), and what the instance map was when the
\* buffer was last queued (queued); and the key-frame mark of the buffer
\* (vpu_buf->force_key_frame)
MapOf(f) == [pat |-> f.qp_map, roi |-> f.roi_info]
NoMap ==
    [alloc |-> FALSE, size |-> 0, data |-> MapOf(OpenFmt),
     queued |-> MapOf(OpenFmt), force_key_frame |-> FALSE]

\* wave6_vpu_enc_custom_map_init: the map of an input buffer gets the size of
\* the instance's ROI geometry; the allocation can fail
wave6_vpu_enc_custom_map_init(f, vb, alloc_ok) ==
    [vb EXCEPT !.size = f.roi_info.custom_map_size, !.alloc = alloc_ok]

\* wave6_vpu_enc_buf_cleanup of an input buffer: its ROI map is freed
wave6_vpu_enc_buf_cleanup(vb) == [vb EXCEPT !.alloc = FALSE, !.size = 0]

\* variant of BufQueueRoi: the key-frame mark of the buffer is left as it was
BufQueueRoi_unmarked(f, vb, alloc_ok) ==
    LET v0 == [vb EXCEPT !.queued = MapOf(f)]
        v1 == IF ~v0.alloc THEN wave6_vpu_enc_custom_map_init(f, v0, alloc_ok)
              ELSE v0
    IN  IF f.roi_mode # "MAP_DELTA_QP" THEN v0
        ELSE IF v1.alloc THEN [v1 EXCEPT !.data = MapOf(f)]
        ELSE v1

\* wave6_vpu_enc_buf_queue of an input buffer, what it stores in the buffer:
\* the pending key-frame request of the instance; with the ROI map mode on, a
\* buffer without a map gets one, and size bytes of the instance map are
\* copied into the map of the buffer
BufQueueRoi(f, vb, alloc_ok) ==
    LET v0 == [vb EXCEPT !.queued = MapOf(f),
                         !.force_key_frame = f.force_key_frame]
        v1 == IF ~v0.alloc THEN wave6_vpu_enc_custom_map_init(f, v0, alloc_ok)
              ELSE v0
    IN  IF f.roi_mode # "MAP_DELTA_QP" THEN v0
        ELSE IF v1.alloc THEN [v1 EXCEPT !.data = MapOf(f)]
        ELSE v1

\* wave6_vpu_enc_start_encode, ROI part: the picture of input buffer sidx is
\* submitted with the map of that buffer when the ROI map mode is on and the
\* buffer has a map (alloc is custom_roi_map_enable of the request)
PicRoi(sidx) ==
    IF sidx # NoBuf /\ fmt.roi_mode = "MAP_DELTA_QP" /\ buf_map[sidx].alloc
    THEN buf_map[sidx]
    ELSE NoMap

(* ------------------------- queue primitives ---------------------------- *)
\* list_del of the k-th entry of a ready queue
RemoveAt(q, k) == SubSeq(q, 1, k - 1) \o SubSeq(q, k + 1, Len(q))

\* position of the first entry satisfying nothing but "idx = i", 0 if none
PosOfIdx(q, i) ==
    IF \E k \in 1 .. Len(q) : q[k].idx = i
    THEN CHOOSE k \in 1 .. Len(q) :
            q[k].idx = i /\ \A j \in 1 .. (k - 1) : q[j].idx # i
    ELSE 0

\* wave6_get_dst_buf_by_addr: the queued output buffer whose plane address is
\* addr (the address of buffer i is i), 0 if none
wave6_get_dst_buf_by_addr(q, addr) == PosOfIdx(q, addr)

\* v4l2_m2m_src_buf_remove_by_idx: position of the queued buffer with index i
v4l2_m2m_src_buf_remove_by_idx(q, i) == PosOfIdx(q, i)

\* v4l2_m2m_{src,dst}_buf_remove: the head of the ready queue, 0 if empty
v4l2_m2m_buf_remove(q) == IF Len(q) > 0 THEN 1 ELSE 0

\* the k-th buffer is selected for a picture request: consumed = true
SetConsumed(q, k) == [q EXCEPT ![k].consumed = TRUE, ![k].picks = @ + 1]

\* sequence is the number the handler stamps on the buffer, -1 if it stamps
\* none
Retired(qn, i, st) ==
    [q |-> qn, idx |-> i, st |-> st, last |-> FALSE, payload |-> "unset",
     sequence |-> -1]

\* wave6_vpu_return_buffers: every buffer of the queue is given back with st
wave6_vpu_return_buffers(qn, q, st) ==
    {Retired(qn, q[k].idx, st) : k \in 1 .. Len(q)}

wave6_vpu_both_queues_are_streaming == src_streaming /\ dst_streaming

\* history of the lifecycle, kept by every step that may change the state
RunSeen(new_state) ==
    IF new_state = "NONE" THEN FALSE
    ELSE run_seen \/ new_state \in {"PIC_RUN", "STOP"}

(* --------------------- selection of the next buffers ------------------- *)
FirstUnconsumed(q) ==
    IF \E k \in 1 .. Len(q) : ~q[k].consumed
    THEN CHOOSE k \in 1 .. Len(q) :
            ~q[k].consumed /\ \A j \in 1 .. (k - 1) : q[j].consumed
    ELSE 0

\* variant of wave6_get_valid_src_buf: the head of the queue, consumed or not
wave6_get_valid_src_buf_head(q) == IF Len(q) > 0 THEN 1 ELSE 0

wave6_get_valid_src_buf(q) == FirstUnconsumed(q)

\* variant of wave6_get_valid_dst_buf: the head of the queue, consumed or not
wave6_get_valid_dst_buf_head(q) == IF Len(q) > 0 THEN 1 ELSE 0

wave6_get_valid_dst_buf(q) == FirstUnconsumed(q)


(* ------------------------------ teardown ------------------------------- *)
Res == [ar |-> ar_vbuf, frame |-> frame_vbuf, aux |-> aux_vbuf]

\* wave6_vpu_enc_release_fb: every frame and auxiliary buffer is freed
wave6_vpu_enc_release_fb(r) == [r EXCEPT !.frame = 0, !.aux = NoAux]

\* variant of wave6_vpu_enc_destroy_instance: a failed close command keeps
\* the scratch buffer
wave6_vpu_enc_destroy_instance_keeps_ar(r, close_ret) ==
    [res |-> [wave6_vpu_enc_release_fb(r) EXCEPT !.ar = (close_ret # 0 /\ @)],
     state |-> "NONE"]

\* wave6_vpu_enc_destroy_instance: the close command may fail (close_ret # 0),
\* which is only logged
wave6_vpu_enc_destroy_instance(r, close_ret) ==
    [res |-> [wave6_vpu_enc_release_fb(r) EXCEPT !.ar = FALSE], state |-> "NONE"]

\* the results of the close command, and how a step records the one it got
CloseResults == {0, -5}
ClosedAs(close_ret) == IF close_ret = 0 THEN "ok" ELSE "failed"

(* ------------------------- start_streaming ----------------------------- *)
\* wave6_vpu_enc_create_instance: scratch allocation, then the open command
wave6_vpu_enc_create_instance(r, alloc_ret, open_ret) ==
    IF alloc_ret # 0 THEN [ret |-> alloc_ret, res |-> r, state |-> "NONE"]
    ELSE IF open_ret # 0 THEN
        [ret |-> open_ret, res |-> [r EXCEPT !.ar = FALSE], state |-> "NONE"]
    ELSE [ret |-> 0, res |-> [r EXCEPT !.ar = TRUE], state |-> "OPEN"]

\* wave6_vpu_enc_initialize_instance, entered in state OPEN.  issue_ret is the
\* result of the sequence-init command, timed_out says that
\* wave6_vpu_wait_interrupt returned < 0, complete_ret is the result of
\* wave6_vpu_enc_complete_seq_init.  On a timeout the function returns ret,
\* which still holds the 0 of the successful issue.
wave6_vpu_enc_initialize_instance(issue_ret, timed_out, complete_ret) ==
    IF issue_ret # 0 THEN [ret |-> issue_ret, state |-> "OPEN"]
    ELSE IF timed_out THEN [ret |-> issue_ret, state |-> "OPEN"]
    ELSE IF complete_ret # 0 THEN [ret |-> complete_ret, state |-> "OPEN"]
    ELSE [ret |-> 0, state |-> "INIT_SEQ"]

\* frame and auxiliary buffers allocated by wave6_vpu_enc_prepare_fb up to the
\* point of failure: stage names the failing loop or call, k the allocations
\* of that stage that succeeded
AuxOrder == <<"FBC_Y_TBL", "FBC_C_TBL", "MV_COL", "SUB_SAMPLE">>
AuxPos(t) == CHOOSE n \in 1 .. 4 : AuxOrder[n] = t
AuxNum(t) == IF t = "MV_COL" THEN ReqMvCount ELSE MinFbCount
PrepareStages == {"none", "frame", "register"} \cup AuxTypes
PrepareFrames(stage, k) == IF stage = "frame" THEN k ELSE MinFbCount
PrepareAux(stage, k) ==
    [t \in AuxTypes |->
        IF stage = "frame" THEN 0
        ELSE IF stage \in {"none", "register"} THEN AuxNum(t)
        ELSE IF AuxPos(t) < AuxPos(stage) THEN AuxNum(t)
        ELSE IF t = stage THEN k
        ELSE 0]

\* the ways wave6_vpu_enc_prepare_fb can go: success ("none"), or failure of
\* the k+1-th frame allocation, of the k+1-th allocation of an auxiliary
\* class (k = 0 also: of its size query; k = AuxNum: of its registration),
\* or of the registration of the frame buffers
PrepareOutcomes ==
    {o \in PrepareStages \X (0 .. (MinFbCount + ReqMvCount)) :
        /\ (o[1] \in {"none", "register"} => o[2] = 0)
        /\ (o[1] = "frame" => o[2] < MinFbCount)
        /\ (o[1] \in AuxTypes => o[2] <= AuxNum(o[1]))}

\* variant of wave6_vpu_enc_prepare_fb: the error path frees nothing
wave6_vpu_enc_prepare_fb_keeps_partial(r, stage, k) ==
    LET got == [r EXCEPT !.frame = PrepareFrames(stage, k),
                         !.aux = PrepareAux(stage, k)]
    IN  IF stage = "none" THEN [ret |-> 0, res |-> got, state |-> "PIC_RUN"]
        ELSE [ret |-> -12, res |-> got, state |-> "INIT_SEQ"]

\* wave6_vpu_enc_prepare_fb, entered in state INIT_SEQ
wave6_vpu_enc_prepare_fb(r, stage, k) ==
    LET got == [r EXCEPT !.frame = PrepareFrames(stage, k),
                         !.aux = PrepareAux(stage, k)]
    IN  IF stage = "none" THEN [ret |-> 0, res |-> got, state |-> "PIC_RUN"]
        ELSE [ret |-> -12, res |-> wave6_vpu_enc_release_fb(got),
              state |-> "INIT_SEQ"]

PeerStreaming(qn) == IF qn = "src" THEN dst_streaming ELSE src_streaming

\* wave6_vpu_enc_start_streaming, entry: nothing to do until the peer streams
StartStreaming(qn) ==
    /\ opened /\ ~releasing /\ ss.pc = "idle" /\ ~job_running /\ irq = None
    /\ IF qn = "src" THEN ~src_streaming ELSE ~dst_streaming
    /\ IF ~PeerStreaming(qn) THEN
            /\ src_streaming' = (src_streaming \/ qn = "src")
            /\ dst_streaming' = (dst_streaming \/ qn = "dst")
            /\ ss' = ss
       ELSE
            /\ ss' = [pc |-> "create", q |-> qn, ret |-> 0]
            /\ UNCHANGED <<src_streaming, dst_streaming>>
    /\ done' = {}
    /\ closed' = "none"
    /\ LockHeld(IoctlLocked)
    /\ UNCHANGED geo_vars
    /\ UNCHANGED <<opened, inst_vars, src_q, dst_q, src_lost, src_buffered,
                   src_error, dst_error, res_vars, job_vars, run_seen, drained>>

\* variant of CreateNeeded: the instance is created on every start
CreateNeededAlways == TRUE

\* if (inst->state == VPU_INST_STATE_NONE)
CreateNeeded == state = "NONE"

\* if (inst->state == VPU_INST_STATE_NONE) create_instance
StartStreamingCreate ==
    /\ ss.pc = "create"
    /\ IF CreateNeeded THEN
            \E alloc_ret \in {0, -12}, open_ret \in {0, -5} :
                LET c == wave6_vpu_enc_create_instance(Res, alloc_ret, open_ret) IN
                /\ state' = c.state
                /\ ar_vbuf' = c.res.ar
                /\ ss' = IF c.ret # 0 THEN [ss EXCEPT !.pc = "exit", !.ret = c.ret]
                         ELSE [ss EXCEPT !.pc = "init"]
       ELSE
            /\ ss' = [ss EXCEPT !.pc = "init"]
            /\ UNCHANGED <<state, ar_vbuf>>
    /\ run_seen' = RunSeen(state')
    /\ done' = {}
    /\ closed' = "none"
    /\ LockHeld(IoctlLocked)
    /\ UNCHANGED geo_vars
    /\ UNCHANGED <<opened, eos, error_recovery, sequence, processed_buf_num,
                   error_buf_num, queued_src_buf_num, queue_vars, frame_vbuf,
                   aux_vbuf, job_vars, drained>>

\* what start_streaming does with the result r of initialize_instance or
\* prepare_fb: on error the instance is destroyed and the call leaves
AfterInstanceStep(r, res_now, next_pc) ==
    IF r.ret # 0 THEN
        \E close_ret \in CloseResults :
            LET d == wave6_vpu_enc_destroy_instance(res_now, close_ret) IN
            /\ state' = d.state
            /\ ar_vbuf' = d.res.ar
            /\ frame_vbuf' = d.res.frame
            /\ aux_vbuf' = d.res.aux
            /\ closed' = ClosedAs(close_ret)
            /\ ss' = [ss EXCEPT !.pc = "exit", !.ret = r.ret]
    ELSE
        /\ closed' = "none"
        /\ state' = r.state
        /\ ar_vbuf' = res_now.ar
        /\ frame_vbuf' = res_now.frame
        /\ aux_vbuf' = res_now.aux
        /\ ss' = [ss EXCEPT !.pc = next_pc]

\* if (inst->state == VPU_INST_STATE_OPEN) initialize_instance, destroy on error
StartStreamingInitWith(issue_ret, timed_out, complete_ret) ==
    /\ ss.pc = "init"
    /\ IF state = "OPEN" THEN
            AfterInstanceStep(
                wave6_vpu_enc_initialize_instance(issue_ret, timed_out, complete_ret),
                Res, "prepare")
       ELSE
            /\ ss' = [ss EXCEPT !.pc = "prepare"]
            /\ closed' = "none"
            /\ UNCHANGED <<state, res_vars>>
    /\ run_seen' = RunSeen(state')
    /\ done' = {}
    /\ LockHeld(IoctlLocked)
    /\ UNCHANGED geo_vars
    /\ UNCHANGED <<opened, eos, error_recovery, sequence, processed_buf_num,
                   error_buf_num, queued_src_buf_num, queue_vars, job_vars,
                   drained>>

StartStreamingInit ==
    \E issue_ret \in {0, -5}, timed_out \in BOOLEAN, complete_ret \in {0, -5} :
        StartStreamingInitWith(issue_ret, timed_out, complete_ret)

\* if (inst->state == VPU_INST_STATE_INIT_SEQ) prepare_fb, destroy on error
StartStreamingPrepare ==
    /\ ss.pc = "prepare"
    /\ IF state = "INIT_SEQ" THEN
            \E o \in PrepareOutcomes :
                LET p == wave6_vpu_enc_prepare_fb(Res, o[1], o[2]) IN
                AfterInstanceStep(p, p.res, "exit")
       ELSE
            /\ ss' = [ss EXCEPT !.pc = "exit"]
            /\ closed' = "none"
            /\ UNCHANGED <<state, res_vars>>
    /\ run_seen' = RunSeen(state')
    /\ done' = {}
    /\ LockHeld(IoctlLocked)
    /\ UNCHANGED geo_vars
    /\ UNCHANGED <<opened, eos, error_recovery, sequence, processed_buf_num,
                   error_buf_num, queued_src_buf_num, queue_vars, job_vars,
                   drained>>

\* exit: on error the queue's buffers go back to vb2 as QUEUED and the queue
\* does not stream; otherwise vb2 marks the queue streaming
StartStreamingExit ==
    /\ ss.pc = "exit"
    /\ IF ss.ret # 0 THEN
            /\ done' = wave6_vpu_return_buffers(ss.q, IF ss.q = "src" THEN src_q ELSE dst_q, "QUEUED")
            /\ src_q' = IF ss.q = "src" THEN <<>> ELSE src_q
            /\ dst_q' = IF ss.q = "dst" THEN <<>> ELSE dst_q
            /\ UNCHANGED <<src_streaming, dst_streaming>>
       ELSE
            /\ done' = {}
            /\ src_streaming' = (src_streaming \/ ss.q = "src")
            /\ dst_streaming' = (dst_streaming \/ ss.q = "dst")
            /\ UNCHANGED <<src_q, dst_q>>
    /\ ss' = SsIdle
    /\ closed' = "none"
    /\ LockHeld(IoctlLocked)
    /\ UNCHANGED geo_vars
    /\ UNCHANGED <<opened, inst_vars, src_lost, src_buffered, src_error,
                   dst_error, res_vars, job_vars, run_seen, drained>>

(* --------------------------- encode cycle ------------------------------ *)
\* the fields of the instance and of its two ready queues that the encode
\* cycle and the completion handler read and write
Inst ==
    [state |-> state, eos |-> eos, error_recovery |-> error_recovery,
     sequence |-> sequence, processed_buf_num |-> processed_buf_num,
     error_buf_num |-> error_buf_num, src_q |-> src_q, dst_q |-> dst_q,
     src_lost |-> src_lost, src_buffered |-> src_buffered,
     src_error |-> src_error, dst_error |-> dst_error]

SetInst(i) ==
    /\ state' = i.state
    /\ eos' = i.eos
    /\ error_recovery' = i.error_recovery
    /\ sequence' = i.sequence
    /\ processed_buf_num' = i.processed_buf_num
    /\ error_buf_num' = i.error_buf_num
    /\ src_q' = i.src_q
    /\ dst_q' = i.dst_q
    /\ src_lost' = i.src_lost
    /\ src_buffered' = i.src_buffered
    /\ src_error' = i.src_error
    /\ dst_error' = i.dst_error

\* wave6_update_seq_param: its return value.  A timeout of the wait returns
\* ret, which holds the 0 of the successful issue; the result of
\* wave6_vpu_enc_complete_seq_init is not assigned.
wave6_update_seq_param(issue_ret, changed, timed_out) ==
    IF issue_ret # 0 THEN issue_ret
    ELSE IF ~changed THEN 0
    ELSE IF timed_out THEN issue_ret
    ELSE 0

\* variant of SrcEndAllowed: the end of the stream is signalled whenever no
\* input buffer is selected
SrcEndAlways(i) == TRUE

\* if (inst->state == VPU_INST_STATE_STOP) pic_param.src_end = true
SrcEndAllowed(i) == i.state = "STOP"

\* variant of StartEncodeFailed: the failed input picture is counted as
\* processed without taking a sequence number
StartEncodeFailed_keeps_sequence(i) ==
    LET dpos == v4l2_m2m_buf_remove(i.dst_q)
        spos == v4l2_m2m_buf_remove(i.src_q)
        ddone == IF dpos = 0 THEN {}
                 ELSE {[Retired("dst", i.dst_q[dpos].idx, "ERROR")
                            EXCEPT !.sequence = i.sequence]}
        sdone == IF spos = 0 THEN {} ELSE {Retired("src", i.src_q[spos].idx, "ERROR")}
        i1 == [i EXCEPT !.state = "STOP",
                        !.dst_q = IF dpos = 0 THEN @ ELSE RemoveAt(@, dpos),
                        !.src_q = IF spos = 0 THEN @ ELSE RemoveAt(@, spos)]
        i2 == IF spos = 0 THEN i1
              ELSE [i1 EXCEPT !.processed_buf_num = @ + 1,
                              !.error_buf_num = @ + 1]
    IN  [inst |-> i2, done |-> ddone \cup sdone]

\* the failure path of start_encode: state STOP, then the heads of the two
\* ready queues are given back as ERROR; the counters move only if an input
\* buffer was taken off
StartEncodeFailed(i) ==
    LET dpos == v4l2_m2m_buf_remove(i.dst_q)
        spos == v4l2_m2m_buf_remove(i.src_q)
        ddone == IF dpos = 0 THEN {}
                 ELSE {[Retired("dst", i.dst_q[dpos].idx, "ERROR")
                            EXCEPT !.sequence = i.sequence]}
        sdone == IF spos = 0 THEN {} ELSE {Retired("src", i.src_q[spos].idx, "ERROR")}
        i1 == [i EXCEPT !.state = "STOP",
                        !.dst_q = IF dpos = 0 THEN @ ELSE RemoveAt(@, dpos),
                        !.src_q = IF spos = 0 THEN @ ELSE RemoveAt(@, spos)]
        i2 == IF spos = 0 THEN i1
              ELSE [i1 EXCEPT !.sequence = @ + 1,
                              !.processed_buf_num = @ + 1,
                              !.error_buf_num = @ + 1]
    IN  [inst |-> i2, done |-> ddone \cup sdone]

\* wave6_vpu_enc_start_encode.  seq_ret is the result of
\* wave6_update_seq_param, submit_ret that of wave6_vpu_enc_start_one_frame.
\* The result names what the cycle did (res), the buffers it selected and
\* marked consumed (src, dst), the picture request it handed to firmware
\* (submit, empty or one request) and the buffers it gave back (done).
wave6_vpu_enc_start_encode(i, seq_ret, submit_ret) ==
    LET s == wave6_get_valid_src_buf(i.src_q)
        d == wave6_get_valid_dst_buf(i.dst_q)
        nothing(ret, res) ==
            [ret |-> ret, res |-> res, inst |-> i, submit |-> <<>>,
             done |-> {}, src |-> NoBuf, dst |-> NoBuf]
    IN  IF seq_ret # 0 THEN nothing(seq_ret, "seq_fail")
        ELSE IF d = 0 THEN nothing(0, "no_dst")
        ELSE IF s = 0 /\ ~SrcEndAllowed(i) THEN nothing(0, "no_src")
        ELSE
            LET sidx == IF s = 0 THEN NoBuf ELSE i.src_q[s].idx
                didx == i.dst_q[d].idx
                force == s # 0 /\ (buf_map[sidx].force_key_frame
                                     \/ i.error_recovery)
                req == [src |-> sidx, dst |-> didx, src_end |-> (s = 0),
                        force_idr |-> force, roi |-> PicRoi(sidx),
                        csc |-> wave6_set_csc(fmt)]
                i1 == [i EXCEPT
                        !.error_recovery = IF force THEN FALSE ELSE @,
                        !.src_q = IF s = 0 THEN @ ELSE SetConsumed(@, s),
                        !.dst_q = SetConsumed(@, d)]
            IN  IF submit_ret = 0 THEN
                    [ret |-> 0, res |-> "submitted", inst |-> i1,
                     submit |-> <<req>>, done |-> {}, src |-> sidx, dst |-> didx]
                ELSE
                    LET f == StartEncodeFailed(i1) IN
                    [ret |-> submit_ret, res |-> "submit_fail", inst |-> f.inst,
                     submit |-> <<>>, done |-> f.done, src |-> sidx, dst |-> didx]

\* variant of JobReady: a job is started although one is running
JobReadyWhileRunning ==
    /\ opened /\ ~releasing /\ ss.pc = "idle"
    /\ wave6_vpu_both_queues_are_streaming
    /\ (Len(src_q) > 0 \/ src_buffered)
    /\ Len(dst_q) > 0
    /\ state \in {"PIC_RUN", "STOP"}

\* v4l2-mem2mem job scheduling: a job of the instance is started only when no
\* job is running, both queues stream, each ready queue holds a buffer (or the
\* input side is marked buffered) and the instance can run pictures
JobReady ==
    /\ opened /\ ~releasing /\ ss.pc = "idle"
    /\ ~job_running
    /\ wave6_vpu_both_queues_are_streaming
    /\ (Len(src_q) > 0 \/ src_buffered)
    /\ Len(dst_q) > 0
    /\ state \in {"PIC_RUN", "STOP"}

\* the job stays running while a picture request is with the firmware; a
\* cycle that handed nothing to firmware ends the job at once
JobRunningAfter(r) == Len(r.submit) > 0

\* device_run: one encode cycle, for given results of the sequence-change
\* and picture commands
DeviceRunWith(seq_ret, submit_ret) ==
    /\ JobReady
    /\ LET r == wave6_vpu_enc_start_encode(Inst, seq_ret, submit_ret) IN
        /\ SetInst(r.inst)
        /\ pending' = pending \o r.submit
        /\ job_running' = JobRunningAfter(r)
        /\ done' = r.done
    /\ run_seen' = RunSeen(state')
    /\ closed' = "none"
    /\ LockHeld(StartProcessLocked)
    /\ UNCHANGED geo_vars
    /\ UNCHANGED <<opened, queued_src_buf_num, src_streaming, dst_streaming,
                   res_vars, irq, ss, drained>>

\* the values wave6_update_seq_param can return, over the results of the
\* sequence-change command and of the wait for its completion
SeqParamResults ==
    {wave6_update_seq_param(issue_ret, changed, timed_out) :
        issue_ret \in {0, -5}, changed \in BOOLEAN, timed_out \in BOOLEAN}

DeviceRun ==
    \E seq_ret \in SeqParamResults, submit_ret \in {0, -5} :
        DeviceRunWith(seq_ret, submit_ret)

(* -------------------------- completion handler ------------------------ *)
\* what the firmware may report for a finished command: the error flag of the
\* interrupt, whether wave6_vpu_enc_get_output_info succeeds (info_ret), and
\* the fields of enc_output_info the handler reads
Info(err, info_ret, sidx, recon, addr, ok) ==
    [kind |-> "irq", error |-> err, info_ret |-> info_ret, enc_src_idx |-> sidx,
     recon_frame_index |-> recon, bitstream_buffer |-> addr,
     encoding_success |-> ok]

Infos ==
    {Info(TRUE, 0, -1, 0, NoAddr, TRUE), Info(FALSE, -5, -1, 0, NoAddr, TRUE)}
    \cup {Info(FALSE, 0, sidx, 0, addr, ok) :
            sidx \in SrcIdx, addr \in DstIdx \cup {NoAddr}, ok \in BOOLEAN}
    \cup {Info(FALSE, 0, sidx, RECON_IDX_FLAG_ENC_END, addr, TRUE) :
            sidx \in {-1} \cup SrcIdx, addr \in DstIdx \cup {NoAddr}}
    \cup {Info(FALSE, 0, sidx, RECON_IDX_FLAG_OTHER, NoAddr, TRUE) :
            sidx \in {-1} \cup SrcIdx}
    \cup {Info(FALSE, 0, -1, 0, NoAddr, TRUE)}

\* variant of SequenceStamp: every output buffer is stamped 0
SequenceStampZero(i) == 0

\* dst_buf->sequence = inst->sequence++: the number stamped on the output
\* buffer of a resolved completion
SequenceStamp(i) == i.sequence

\* variant of wave6_handle_encoded_frame: the picture is counted before the
\* output buffer is looked up
wave6_handle_encoded_frame_counts_first(i, info) ==
    LET spos == v4l2_m2m_src_buf_remove_by_idx(i.src_q, info.enc_src_idx)
    IN  IF spos = 0 THEN [inst |-> i, done |-> {}, res |-> "no_src"]
        ELSE [inst |-> [i EXCEPT !.src_q = RemoveAt(@, spos),
                                 !.src_lost = @ \cup {i.src_q[spos].idx},
                                 !.sequence = @ + 1,
                                 !.processed_buf_num = @ + 1],
              done |-> {}, res |-> "no_dst"]

\* variant of wave6_handle_encoded_frame: a failed picture is counted but
\* error recovery is not requested
wave6_handle_encoded_frame_no_recovery(i, info) ==
    LET st == IF info.encoding_success THEN "DONE" ELSE "ERROR"
        spos == v4l2_m2m_src_buf_remove_by_idx(i.src_q, info.enc_src_idx)
    IN  IF spos = 0 THEN [inst |-> i, done |-> {}, res |-> "no_src"]
        ELSE
            LET sbuf == i.src_q[spos]
                i1 == [i EXCEPT !.src_q = RemoveAt(@, spos)]
                lost == [i1 EXCEPT !.src_lost = @ \cup {sbuf.idx}]
                dpos == wave6_get_dst_buf_by_addr(i1.dst_q, info.bitstream_buffer)
            IN  IF ~sbuf.consumed THEN
                    [inst |-> lost, done |-> {}, res |-> "src_not_consumed"]
                ELSE IF dpos = 0 THEN
                    [inst |-> lost, done |-> {}, res |-> "no_dst"]
                ELSE
                    [inst |-> [i1 EXCEPT
                                !.sequence = @ + 1,
                                !.dst_q = RemoveAt(@, dpos),
                                !.error_buf_num = IF st = "ERROR" THEN @ + 1 ELSE @,
                                !.processed_buf_num = @ + 1],
                     done |-> {Retired("src", sbuf.idx, st),
                               [Retired("dst", i1.dst_q[dpos].idx, st)
                                    EXCEPT !.payload = "bitstream_size",
                                           !.sequence = SequenceStamp(i1)]},
                     res |-> "encoded"]

\* wave6_handle_encoded_frame
wave6_handle_encoded_frame(i, info) ==
    LET st == IF info.encoding_success THEN "DONE" ELSE "ERROR"
        spos == v4l2_m2m_src_buf_remove_by_idx(i.src_q, info.enc_src_idx)
    IN  IF spos = 0 THEN [inst |-> i, done |-> {}, res |-> "no_src"]
        ELSE
            LET sbuf == i.src_q[spos]
                i1 == [i EXCEPT !.src_q = RemoveAt(@, spos)]
                lost == [i1 EXCEPT !.src_lost = @ \cup {sbuf.idx}]
                dpos == wave6_get_dst_buf_by_addr(i1.dst_q, info.bitstream_buffer)
            IN  IF ~sbuf.consumed THEN
                    [inst |-> lost, done |-> {}, res |-> "src_not_consumed"]
                ELSE IF dpos = 0 THEN
                    [inst |-> lost, done |-> {}, res |-> "no_dst"]
                ELSE
                    LET i2 == [i1 EXCEPT
                                !.sequence = @ + 1,
                                !.dst_q = RemoveAt(@, dpos),
                                !.error_recovery = IF st = "ERROR" THEN TRUE ELSE @,
                                !.error_buf_num = IF st = "ERROR" THEN @ + 1 ELSE @,
                                !.processed_buf_num = @ + 1]
                    IN  [inst |-> i2,
                         done |-> {Retired("src", sbuf.idx, st),
                                   [Retired("dst", i1.dst_q[dpos].idx, st)
                                        EXCEPT !.payload = "bitstream_size",
                                               !.sequence = SequenceStamp(i1)]},
                         res |-> "encoded"]

\* variant of wave6_handle_last_frame: the state and the buffered mark of the
\* input side are left as the stop command set them
wave6_handle_last_frame_keeps_stop(i, addr) ==
    LET dpos == wave6_get_dst_buf_by_addr(i.dst_q, addr)
    IN  IF dpos = 0 THEN [inst |-> i, done |-> {}, res |-> "last_no_dst"]
        ELSE
            [inst |-> [i EXCEPT !.dst_q = RemoveAt(@, dpos), !.eos = TRUE],
             done |-> {[Retired("dst", i.dst_q[dpos].idx, "DONE")
                            EXCEPT !.last = TRUE, !.payload = "zero"]},
             res |-> "last"]

\* wave6_handle_last_frame
wave6_handle_last_frame(i, addr) ==
    LET dpos == wave6_get_dst_buf_by_addr(i.dst_q, addr)
    IN  IF dpos = 0 THEN [inst |-> i, done |-> {}, res |-> "last_no_dst"]
        ELSE
            [inst |-> [i EXCEPT !.dst_q = RemoveAt(@, dpos),
                                !.state = "PIC_RUN",
                                !.eos = TRUE,
                                !.src_buffered = FALSE],
             done |-> {[Retired("dst", i.dst_q[dpos].idx, "DONE")
                            EXCEPT !.last = TRUE, !.payload = "zero"]},
             res |-> "last"]

\* variant of wave6_vpu_enc_finish_encode: an error faults the output queue
\* only
wave6_vpu_enc_finish_encode_faults_dst_only(i, info) ==
    IF info.error THEN
        [inst |-> [i EXCEPT !.dst_error = TRUE, !.state = "STOP", !.eos = TRUE],
         done |-> {}, res |-> "error"]
    ELSE IF info.info_ret # 0 THEN [inst |-> i, done |-> {}, res |-> "info_fail"]
    ELSE IF info.enc_src_idx >= 0 /\ info.recon_frame_index >= 0 THEN
        wave6_handle_encoded_frame(i, info)
    ELSE IF info.recon_frame_index = RECON_IDX_FLAG_ENC_END THEN
        wave6_handle_last_frame(i, info.bitstream_buffer)
    ELSE [inst |-> i, done |-> {}, res |-> "ignored"]

\* a finish_encode that does not recognise the encode-end recon index
wave6_vpu_enc_finish_encode_ignores_enc_end(i, info) ==
    IF info.error THEN
        [inst |-> [i EXCEPT !.src_error = TRUE, !.dst_error = TRUE,
                            !.state = "STOP", !.eos = TRUE],
         done |-> {}, res |-> "error"]
    ELSE IF info.info_ret # 0 THEN [inst |-> i, done |-> {}, res |-> "info_fail"]
    ELSE IF info.enc_src_idx >= 0 /\ info.recon_frame_index >= 0 THEN
        wave6_handle_encoded_frame(i, info)
    ELSE [inst |-> i, done |-> {}, res |-> "ignored"]

\* wave6_vpu_enc_finish_encode, up to the finish_encode label
wave6_vpu_enc_finish_encode(i, info) ==
    IF info.error THEN
        [inst |-> [i EXCEPT !.src_error = TRUE, !.dst_error = TRUE,
                            !.state = "STOP", !.eos = TRUE],
         done |-> {}, res |-> "error"]
    ELSE IF info.info_ret # 0 THEN [inst |-> i, done |-> {}, res |-> "info_fail"]
    ELSE IF info.enc_src_idx >= 0 /\ info.recon_frame_index >= 0 THEN
        wave6_handle_encoded_frame(i, info)
    ELSE IF info.recon_frame_index = RECON_IDX_FLAG_ENC_END THEN
        wave6_handle_last_frame(i, info.bitstream_buffer)
    ELSE [inst |-> i, done |-> {}, res |-> "ignored"]

\* variant of wave6_vpu_finish_job: the job is left running
wave6_vpu_finish_job_skipped == job_running' = job_running

\* wave6_vpu_finish_job: the running job of the instance ends
wave6_vpu_finish_job == job_running' = FALSE

\* finish_process with the handler's result r, then wave6_vpu_finish_job,
\* which every path of wave6_vpu_enc_finish_encode reaches
FinishEncodeApply(r) ==
    /\ SetInst(r.inst)
    /\ done' = r.done
    /\ drained' = (drained \/ r.res = "last")
    /\ wave6_vpu_finish_job
    /\ pending' = Tail(pending)
    /\ irq' = None
    /\ run_seen' = RunSeen(state')
    /\ closed' = "none"
    /\ LockHeld(FinishProcessLocked)
    /\ UNCHANGED geo_vars
    /\ UNCHANGED <<opened, queued_src_buf_num, src_streaming, dst_streaming,
                   res_vars, ss>>

\* finish_process for the completion event info
FinishEncodeOn(info) ==
    FinishEncodeApply(wave6_vpu_enc_finish_encode(Inst, info))

\* the firmware finishes the outstanding command, raises its interrupt, and
\* the interrupt thread calls finish_process with what the firmware reports
Completion ==
    /\ Len(pending) > 0 /\ irq = None
    /\ \E r \in {wave6_vpu_enc_finish_encode(Inst, info) : info \in Infos} :
            FinishEncodeApply(r)

(* ------------------------ queueing and commands ------------------------ *)
\* wave6_vpu_enc_buf_queue of an input buffer the application owns, for a
\* session of at most cap input buffers
QueueSrc(b, cap) ==
    /\ opened /\ ~releasing /\ ss.pc = "idle"
    /\ src_streaming /\ ~src_error
    /\ PosOfIdx(src_q, b) = 0 /\ b \notin src_lost
    /\ queued_src_buf_num < cap
    /\ queued_src_buf_num' = queued_src_buf_num + 1
    /\ src_q' = Append(src_q, [idx |-> b, consumed |-> FALSE, picks |-> 0])
    /\ \E alloc_ok \in BOOLEAN :
        buf_map' = [buf_map EXCEPT ![b] = BufQueueRoi(fmt, @, alloc_ok)]
    /\ fmt' = [fmt EXCEPT !.force_key_frame = FALSE]
    /\ done' = {}
    /\ closed' = "none"
    /\ LockHeld(IoctlLocked)
    /\ UNCHANGED <<opened, state, eos, error_recovery, sequence,
                   processed_buf_num, error_buf_num, dst_q, src_lost,
                   src_streaming, dst_streaming, src_buffered, src_error,
                   dst_error, res_vars, job_vars, ss, run_seen, drained>>

BufQueueSrc(b) == QueueSrc(b, MaxQueued)

\* wave6_vpu_enc_buf_queue of an output buffer the application owns
BufQueueDst(b) ==
    /\ opened /\ ~releasing /\ ss.pc = "idle"
    /\ dst_streaming /\ ~dst_error
    /\ PosOfIdx(dst_q, b) = 0
    /\ dst_q' = Append(dst_q, [idx |-> b, consumed |-> FALSE, picks |-> 0])
    /\ done' = {}
    /\ closed' = "none"
    /\ LockHeld(IoctlLocked)
    /\ UNCHANGED geo_vars
    /\ UNCHANGED <<opened, inst_vars, src_q, src_lost, src_streaming,
                   dst_streaming, src_buffered, src_error, dst_error, res_vars,
                   job_vars, ss, run_seen, drained>>

\* variant of wave6_vpu_enc_encoder_cmd: the stop command marks the input
\* side buffered and leaves the state
wave6_vpu_enc_encoder_cmd_stop_keeps_state(i, cmd, both_streaming) ==
    IF ~both_streaming THEN i
    ELSE IF cmd = "STOP" THEN [i EXCEPT !.src_buffered = TRUE]
    ELSE i

\* variant of wave6_vpu_enc_encoder_cmd: the start command resumes pictures
wave6_vpu_enc_encoder_cmd_start_resumes(i, cmd, both_streaming) ==
    IF ~both_streaming THEN i
    ELSE IF cmd = "STOP" THEN [i EXCEPT !.state = "STOP", !.src_buffered = TRUE]
    ELSE [i EXCEPT !.state = "PIC_RUN"]

\* wave6_vpu_enc_encoder_cmd: the instance fields it writes
wave6_vpu_enc_encoder_cmd(i, cmd, both_streaming) ==
    IF ~both_streaming THEN i
    ELSE IF cmd = "STOP" THEN [i EXCEPT !.state = "STOP", !.src_buffered = TRUE]
    ELSE i

EncoderCmd(cmd) ==
    /\ opened /\ ~releasing /\ ss.pc = "idle"
    /\ SetInst(wave6_vpu_enc_encoder_cmd(Inst, cmd, wave6_vpu_both_queues_are_streaming))
    /\ done' = {}
    /\ closed' = "none"
    /\ run_seen' = RunSeen(state')
    /\ LockHeld(IoctlLocked)
    /\ UNCHANGED geo_vars
    /\ UNCHANGED <<opened, queued_src_buf_num, src_streaming, dst_streaming,
                   res_vars, job_vars, ss, drained>>

(* --------------------------- stop_streaming ---------------------------- *)
\* wave6_vpu_enc_stop_streaming of queue qn.  It is reached through
\* VIDIOC_STREAMOFF, under dev_lock, after v4l2-mem2mem has waited for the
\* running job; or, for a queue still streaming when the file is closed,
\* through v4l2_m2m_ctx_release, which wave6_vpu_enc_release calls before it
\* takes dev_lock (capture queue first).  vb2 then clears the queue's
\* streaming and error flags and reclaims every buffer of the queue
StopStreamingBy(qn, by_release) ==
    /\ opened /\ ss.pc = "idle" /\ ~job_running /\ irq = None
    /\ releasing = by_release
    /\ by_release => (qn = "dst" \/ ~dst_streaming)
    /\ dev_locked' = (~by_release /\ IoctlLocked)
    /\ UNCHANGED geo_vars
    /\ UNCHANGED releasing
    /\ IF qn = "src" THEN src_streaming ELSE dst_streaming
    /\ IF state = "NONE" THEN
            /\ closed' = "none"
            /\ UNCHANGED <<inst_vars, res_vars, src_buffered>>
       ELSE
          \E close_ret \in CloseResults :
            LET st1 == IF wave6_vpu_both_queues_are_streaming THEN "STOP" ELSE state
                destroy == ~PeerStreaming(qn) /\ st1 # "NONE"
                d == wave6_vpu_enc_destroy_instance(Res, close_ret)
            IN  /\ closed' = IF destroy THEN ClosedAs(close_ret) ELSE "none"
                /\ state' = IF destroy THEN d.state ELSE st1
                /\ ar_vbuf' = IF destroy THEN d.res.ar ELSE ar_vbuf
                /\ frame_vbuf' = IF destroy THEN d.res.frame ELSE frame_vbuf
                /\ aux_vbuf' = IF destroy THEN d.res.aux ELSE aux_vbuf
                /\ IF qn = "src" THEN
                        /\ queued_src_buf_num' = 0
                        /\ processed_buf_num' = 0
                        /\ error_buf_num' = 0
                        /\ sequence' = 0
                        /\ src_buffered' = FALSE
                        /\ UNCHANGED eos
                   ELSE
                        /\ eos' = FALSE
                        /\ UNCHANGED <<queued_src_buf_num, processed_buf_num,
                                       error_buf_num, sequence, src_buffered>>
                /\ UNCHANGED error_recovery
    /\ done' = wave6_vpu_return_buffers(qn, IF qn = "src" THEN src_q ELSE dst_q, "ERROR")
    /\ src_q' = IF qn = "src" THEN <<>> ELSE src_q
    /\ dst_q' = IF qn = "dst" THEN <<>> ELSE dst_q
    /\ src_lost' = IF qn = "src" THEN {} ELSE src_lost
    /\ src_streaming' = (src_streaming /\ qn # "src")
    /\ dst_streaming' = (dst_streaming /\ qn # "dst")
    /\ src_error' = (src_error /\ qn # "src")
    /\ dst_error' = (dst_error /\ qn # "dst")
    /\ drained' = FALSE
    /\ run_seen' = RunSeen(state')
    /\ UNCHANGED <<opened, job_vars, ss>>

StopStreaming(qn) == StopStreamingBy(qn, FALSE)

\* wave6_vpu_enc_release, first part: v4l2_m2m_ctx_release waits for the
\* running job, then releases the two queues
ReleaseBegin ==
    /\ opened /\ ~releasing /\ ss.pc = "idle" /\ ~job_running /\ irq = None
    /\ releasing' = TRUE
    /\ dev_locked' = FALSE
    /\ UNCHANGED geo_vars
    /\ done' = {}
    /\ closed' = "none"
    /\ UNCHANGED <<opened, inst_vars, queue_vars, res_vars, job_vars, ss,
                   run_seen, drained>>

ReleaseStopStreaming(qn) == StopStreamingBy(qn, TRUE)

(* --------------------------- open and release -------------------------- *)
\* the fields of a freshly allocated (kzalloc) instance
FreshInstance ==
    /\ state = "NONE"
    /\ eos = FALSE
    /\ error_recovery = FALSE
    /\ sequence = 0
    /\ processed_buf_num = 0
    /\ error_buf_num = 0
    /\ queued_src_buf_num = 0
    /\ src_q = <<>>
    /\ dst_q = <<>>
    /\ src_lost = {}
    /\ src_streaming = FALSE
    /\ dst_streaming = FALSE
    /\ src_buffered = FALSE
    /\ src_error = FALSE
    /\ dst_error = FALSE
    /\ ar_vbuf = FALSE
    /\ frame_vbuf = 0
    /\ aux_vbuf = NoAux
    /\ job_running = FALSE
    /\ pending = <<>>
    /\ irq = None
    /\ ss = SsIdle
    /\ run_seen = FALSE
    /\ drained = FALSE
    /\ releasing = FALSE

\* wave6_vpu_enc_release, second part, after v4l2_m2m_ctx_release has
\* stopped both queues: under dev_lock the instance is destroyed if it still
\* holds a hardware context; then it is freed
Release ==
    /\ opened /\ releasing /\ ss.pc = "idle" /\ ~job_running /\ irq = None
    /\ ~src_streaming /\ ~dst_streaming
    /\ opened' = FALSE
    /\ releasing' = FALSE
    /\ dev_locked' = TRUE
    /\ buf_map' = [b \in SrcIdx |-> wave6_vpu_enc_buf_cleanup(buf_map[b])]
    /\ UNCHANGED fmt
    /\ \E close_ret \in CloseResults :
       LET d == IF state # "NONE"
                THEN wave6_vpu_enc_destroy_instance(Res, close_ret)
                ELSE [res |-> Res, state |-> state]
       IN  /\ closed' = IF state # "NONE" THEN ClosedAs(close_ret) ELSE "none"
           /\ state' = d.state
           /\ ar_vbuf' = d.res.ar
           /\ frame_vbuf' = d.res.frame
           /\ aux_vbuf' = d.res.aux
    /\ eos' = FALSE
    /\ error_recovery' = FALSE
    /\ src_buffered' = FALSE
    /\ run_seen' = RunSeen(state')
    /\ drained' = FALSE
    /\ done' = {}
    /\ UNCHANGED <<sequence, processed_buf_num, error_buf_num,
                   queued_src_buf_num, src_q, dst_q, src_lost, src_streaming,
                   dst_streaming, src_error, dst_error, job_vars, ss>>

\* wave6_vpu_open_enc: a new instance, state NONE
OpenEnc ==
    /\ ~opened
    /\ opened' = TRUE
    /\ fmt' = OpenFmt
    /\ UNCHANGED buf_map
    /\ LockHeld(IoctlLocked)
    /\ done' = {}
    /\ closed' = "none"
    /\ UNCHANGED <<inst_vars, queue_vars, res_vars, job_vars, ss, run_seen,
                   drained>>

(* --------------------------- specification ----------------------------- *)
Init ==
    /\ opened = TRUE
    /\ FreshInstance
    /\ done = {}
    /\ closed = "none"
    /\ dev_locked = FALSE
    /\ fmt = OpenFmt
    /\ buf_map = [b \in SrcIdx |-> NoMap]

Next ==
    \/ \E qn \in {"src", "dst"} : StartStreaming(qn)
    \/ StartStreamingCreate
    \/ StartStreamingInit
    \/ StartStreamingPrepare
    \/ StartStreamingExit
    \/ \E qn \in {"src", "dst"} : StopStreaming(qn)
    \/ \E b \in SrcIdx : BufQueueSrc(b)
    \/ \E b \in DstIdx : BufQueueDst(b)
    \/ \E cmd \in {"START", "STOP"} : EncoderCmd(cmd)
    \/ DeviceRun
    \/ Completion
    \/ ReleaseBegin
    \/ \E qn \in {"src", "dst"} : ReleaseStopStreaming(qn)
    \/ Release
    \/ OpenEnc

Spec == Init /\ [][Next]_vars

(* --------------------------- drain scenario ---------------------------- *)
\* One streaming session in which ScenarioInputs input buffers are queued,
\* the stop command follows, and the firmware accepts every picture command
\* and answers each request with the buffers of that request: a picture
\* request with its source index and bitstream address, an end-of-stream
\* request with the drain marker and the address of its output buffer.
AnswerOf(req, ok) ==
    IF req.src_end
    THEN Info(FALSE, 0, -1, RECON_IDX_FLAG_ENC_END, req.dst, TRUE)
    ELSE Info(FALSE, 0, req.src, 0, req.dst, ok)

ScenQueueSrc(b) == ~src_buffered /\ ~drained /\ QueueSrc(b, ScenarioInputs)

ScenStop ==
    /\ queued_src_buf_num = ScenarioInputs
    /\ wave6_vpu_both_queues_are_streaming
    /\ ~src_buffered /\ ~drained
    /\ EncoderCmd("STOP")

ScenDeviceRun == \E seq_ret \in SeqParamResults : DeviceRunWith(seq_ret, 0)

ScenCompletion ==
    /\ Len(pending) > 0 /\ irq = None
    /\ \E ok \in BOOLEAN : FinishEncodeOn(AnswerOf(pending[1], ok))

NextB ==
    \/ \E qn \in {"src", "dst"} : StartStreaming(qn)
    \/ StartStreamingCreate
    \/ StartStreamingInit
    \/ StartStreamingPrepare
    \/ StartStreamingExit
    \/ \E b \in SrcIdx : ScenQueueSrc(b)
    \/ \E b \in DstIdx : BufQueueDst(b)
    \/ ScenStop
    \/ ScenDeviceRun
    \/ ScenCompletion

SpecB == Init /\ [][NextB]_vars

(* ------------------- format, crop and ROI requests --------------------- *)
\* an ioctl that changes the format and ROI fields of the instance to f
FmtIoctl(f) ==
    /\ opened /\ ~releasing /\ ss.pc = "idle"
    /\ fmt' = f
    /\ done' = {}
    /\ closed' = "none"
    /\ LockHeld(IoctlLocked)
    /\ UNCHANGED <<opened, inst_vars, queue_vars, res_vars, job_vars, ss,
                   run_seen, drained, buf_map>>

\* sizes and rectangles the application asks for: below the minimum picture,
\* not a multiple of the size step, the 1920x1080 picture; crop origins left
\* of, inside and beyond the source, crop sizes of nothing, odd, inside and
\* larger than the source and than the largest picture
OutSizes == {0, 260, 1920} \X {0, 1080}
CropRequests ==
    {Rect(l, t, w, h) : l \in {-3, 0, 3, 34, 2000}, t \in {0, 3},
                        w \in {0, 1, 301, 70000}, h \in {0, 201, 5000}}
\* number of different user ROI maps
UserMaps == 2

\* VIDIOC_S_FMT on the capture queue
SFmtCap ==
    \E known \in BOOLEAN, pixelformat \in {"H264", "HEVC"} :
        FmtIoctl(wave6_vpu_enc_s_fmt_cap(fmt, known, pixelformat, 1920, 1080))

\* VIDIOC_S_FMT on the output queue
SFmtOutWith(known, width, height) ==
    FmtIoctl(wave6_vpu_enc_s_fmt_out(fmt, known, width, height))

SFmtOut ==
    \E known \in BOOLEAN, size \in OutSizes :
        SFmtOutWith(known, size[1], size[2])

\* VIDIOC_S_FMT on the output queue for a 1920x1080 source of a YUV or RGB
\* format with each YCbCr encoding and quantization of the V4L2 interface
SFmtOutRgb ==
    \E rgb \in {"NO", "RGB8", "RGB10"},
       ycbcr_enc \in {"DEFAULT", "601", "709", "XV601", "XV709", "SYCC",
                      "BT2020", "BT2020_CONST_LUM", "SMPTE240M"},
       quantization \in {"DEFAULT", "FULL_RANGE", "LIM_RANGE"} :
        FmtIoctl(s_fmt_out_colorimetry(fmt, rgb, 1920, 1080, ycbcr_enc,
                                       quantization))

\* VIDIOC_S_SELECTION
SSelectionWith(valid, flags, rect) ==
    FmtIoctl(wave6_vpu_enc_s_selection(fmt, valid, flags, rect).fmt)

SSelection ==
    \/ \E flags \in {{}, {"GE"}, {"GE", "LE"}}, rect \in CropRequests :
           SSelectionWith(TRUE, flags, rect)
    \/ SSelectionWith(FALSE, {}, Rect(0, 0, 301, 201))

\* s_ctrl of V4L2_CID_MPEG_VIDEO_ROI_MODE
SCtrlRoiMode ==
    \E mode \in {"NONE", "MAP_DELTA_QP"} :
        FmtIoctl([fmt EXCEPT !.roi_mode = mode])

\* s_ctrl of V4L2_CID_MPEG_VIDEO_ROI_MAP_DELTA_QP with user map p of as many
\* elements as the geometry has CTUs (fits) or of one more
SCtrlRoiMapWith(p, fits) ==
    FmtIoctl(wave6_vpu_enc_set_roi_map(fmt, p,
                 IF fits THEN fmt.roi_info.num_ctu
                 ELSE fmt.roi_info.num_ctu + 1))

SCtrlRoiMap == \E p \in 1..UserMaps, fits \in BOOLEAN : SCtrlRoiMapWith(p, fits)

\* the format negotiation of an open instance that does not stream
NextG ==
    \/ SFmtCap
    \/ SFmtOut
    \/ SSelection
    \/ SCtrlRoiMap

SpecG == Init /\ [][NextG]_vars

(* ------------------------ ROI maps while streaming --------------------- *)
\* One streaming session in which the firmware accepts every picture command
\* and answers each request with the buffers of that request, while the
\* application switches the ROI mode, writes user maps, sets one of two crops
\* and queues its input buffers again
RoiCrop ==
    \E rect \in {Rect(0, 0, 301, 201), Rect(0, 0, 5000, 5000)} :
        SSelectionWith(TRUE, {}, rect)

RoiMapWrite == \E p \in 1..UserMaps : SCtrlRoiMapWith(p, TRUE)

NextR ==
    \/ \E qn \in {"src", "dst"} : StartStreaming(qn)
    \/ StartStreamingCreate
    \/ StartStreamingInit
    \/ StartStreamingPrepare
    \/ StartStreamingExit
    \/ \E b \in SrcIdx : BufQueueSrc(b)
    \/ \E b \in DstIdx : BufQueueDst(b)
    \/ ScenDeviceRun
    \/ ScenCompletion
    \/ SCtrlRoiMode
    \/ RoiMapWrite
    \/ RoiCrop

SpecR == Init /\ [][NextR]_vars

(* ------------------ flip and key-frame controls ------------------------ *)
\* a | b of two 2-bit values
BitOr2(a, b) ==
    2 * (IF a \div 2 = 1 \/ b \div 2 = 1 THEN 1 ELSE 0)
      + (IF a % 2 = 1 \/ b % 2 = 1 THEN 1 ELSE 0)

\* wave6_vpu_enc_s_ctrl for V4L2_CID_HFLIP, V4L2_CID_VFLIP and
\* V4L2_CID_MPEG_VIDEO_FORCE_KEY_FRAME.  hflip and vflip record the value
\* last written to each flip control.
wave6_vpu_enc_s_ctrl(f, id, val) ==
    IF id = "HFLIP" THEN
        [f EXCEPT !.mirror_direction = BitOr2(@, 2 * val), !.hflip = val]
    ELSE IF id = "VFLIP" THEN
        [f EXCEPT !.mirror_direction = BitOr2(@, val), !.vflip = val]
    ELSE [f EXCEPT !.force_key_frame = TRUE]

\* wave6_vpu_enc_initialize_instance: the mirror direction it hands to the
\* encoder, 0 when it does not enable mirroring
MirrorAtSeqInit(f) == IF f.mirror_direction # 0 THEN f.mirror_direction ELSE 0

\* a write of val to a flip control (both are created with range 0..1)
SCtrlFlip ==
    \E id \in {"HFLIP", "VFLIP"}, val \in {0, 1} :
        FmtIoctl(wave6_vpu_enc_s_ctrl(fmt, id, val))

\* a write to the force-key-frame button control
SCtrlForceKeyFrame == FmtIoctl(wave6_vpu_enc_s_ctrl(fmt, "FORCE_KEY_FRAME", 1))

\* One streaming session in which the firmware answers each request it
\* accepted with the buffers of that request, reporting success or failure of
\* the picture, while the application writes the flip controls and asks for
\* key frames
NextC ==
    \/ \E qn \in {"src", "dst"} : StartStreaming(qn)
    \/ StartStreamingCreate
    \/ StartStreamingInit
    \/ StartStreamingPrepare
    \/ StartStreamingExit
    \/ \E b \in SrcIdx : ScenQueueSrc(b)
    \/ \E b \in DstIdx : BufQueueDst(b)
    \/ DeviceRun
    \/ ScenCompletion
    \/ SCtrlFlip
    \/ SCtrlForceKeyFrame

SpecC == Init /\ [][NextC]_vars

(* -------------------- colour conversion of RGB sources ----------------- *)
\* One streaming session in which the firmware accepts every picture command
\* and answers each request with the buffers of that request, while the
\* application has set the source format and its colorimetry before it
\* starts the queues
NextK ==
    \/ \E qn \in {"src", "dst"} : StartStreaming(qn)
    \/ StartStreamingCreate
    \/ StartStreamingInit
    \/ StartStreamingPrepare
    \/ StartStreamingExit
    \/ \E b \in SrcIdx : ScenQueueSrc(b)
    \/ \E b \in DstIdx : BufQueueDst(b)
    \/ ScenDeviceRun
    \/ ScenCompletion
    \/ (~src_streaming /\ ~dst_streaming /\ SFmtOutRgb)

SpecK == Init /\ [][NextK]_vars

(* ------------------- completion in two steps, fairness ----------------- *)
\* the firmware finishes the outstanding command and raises its interrupt
\* with what it reports
FirmwareComplete ==
    /\ Len(pending) > 0 /\ irq = None
    /\ irq' \in Infos
    /\ done' = {}
    /\ closed' = "none"
    /\ UNCHANGED <<releasing, dev_locked>>
    /\ UNCHANGED geo_vars
    /\ UNCHANGED <<opened, inst_vars, queue_vars, res_vars, job_running,
                   pending, ss, run_seen, drained>>

\* the interrupt thread calls finish_process for the raised interrupt
FinishEncode == irq # None /\ Len(pending) > 0 /\ FinishEncodeOn(irq)

\* One streaming session: every submitted request is eventually completed
\* and handled, a ready job is eventually run, the firmware does not reject
\* picture commands for ever, and the application queues again every output
\* buffer it gets back
NextL ==
    \/ \E qn \in {"src", "dst"} : StartStreaming(qn)
    \/ StartStreamingCreate
    \/ StartStreamingInit
    \/ StartStreamingPrepare
    \/ StartStreamingExit
    \/ \E b \in SrcIdx : BufQueueSrc(b)
    \/ \E b \in DstIdx : BufQueueDst(b)
    \/ \E cmd \in {"START", "STOP"} : EncoderCmd(cmd)
    \/ DeviceRun
    \/ FirmwareComplete
    \/ FinishEncode

SpecL ==
    /\ Init /\ [][NextL]_vars
    /\ WF_vars(DeviceRun)
    /\ SF_vars(DeviceRunWith(0, 0))
    /\ WF_vars(FirmwareComplete)
    /\ WF_vars(FinishEncode)
    /\ \A b \in DstIdx : WF_vars(BufQueueDst(b))

(* ------------------------------ properties ---------------------------- *)
\* C1: at most one picture request is outstanding at any time; while one is
\* outstanding the job of the instance is running, so no second cycle starts
SingleOutstandingRequest ==
    /\ Len(pending) <= 1
    /\ (Len(pending) = 1 => job_running)

\* a request is outstanding while the stop command has been given and a
\* further input and output buffer wait unconsumed in the queues
OutstandingWithWorkWaiting ==
    /\ Len(pending) = 1
    /\ state = "STOP" /\ src_buffered
    /\ wave6_get_valid_src_buf(src_q) # 0
    /\ wave6_get_valid_dst_buf(dst_q) # 0

\* C2: once PIC_RUN or STOP has been reached, the state is not OPEN or
\* INIT_SEQ again unless it has been NONE in between
NoRegressToOpenOrInitSeq == run_seen => state \notin {"OPEN", "INIT_SEQ"}

\* start_streaming runs its initialisation step on an instance that has
\* already reached STOP (one queue is restarted while the other streams)
RestartOnRunInstance == run_seen /\ ss.pc = "init" /\ state = "STOP"

\* position of a state in the order NONE, OPEN, INIT_SEQ, PIC_RUN, STOP
Rank(st) ==
    CASE st = "NONE" -> 0
      [] st = "OPEN" -> 1
      [] st = "INIT_SEQ" -> 2
      [] st = "PIC_RUN" -> 3
      [] st = "STOP" -> 4

\* a step inside a streaming session: both queues stream before and after it
InSession ==
    /\ wave6_vpu_both_queues_are_streaming
    /\ src_streaming' /\ dst_streaming'

\* the step that handles the drain marker
DrainStep ==
    /\ state = "STOP" /\ state' = "PIC_RUN"
    /\ eos'
    /\ \E r \in done' : r.q = "dst" /\ r.last

\* C3 (amended): within a streaming session the state only moves forward
\* along NONE, OPEN, INIT_SEQ, PIC_RUN, STOP, except that handling the drain
\* marker moves it from STOP back to PIC_RUN
ForwardExceptDrain ==
    [][InSession => (Rank(state') >= Rank(state) \/ DrainStep)]_vars

\* C3 (as stated): within a streaming session no step moves the state from
\* a later to an earlier one, in particular not from STOP back to PIC_RUN
ForwardOnly == [][InSession => Rank(state') >= Rank(state)]_vars

\* the drain marker has just been handled
JustDrained ==
    /\ drained /\ state = "PIC_RUN" /\ eos
    /\ \E r \in done : r.q = "dst" /\ r.last

\* a completion event that reports a picture (no error, output information
\* read, source and recon index valid) whose buffers cannot be resolved
Unresolvable(i, info) ==
    /\ ~info.error /\ info.info_ret = 0
    /\ info.enc_src_idx >= 0 /\ info.recon_frame_index >= 0
    /\ LET spos == PosOfIdx(i.src_q, info.enc_src_idx)
       IN  \/ spos = 0
           \/ ~i.src_q[spos].consumed
           \/ PosOfIdx(i.dst_q, info.bitstream_buffer) = 0

\* C4: a completion event whose source index matches no queued input
\* buffer, whose input buffer is not consumed, or whose bitstream address
\* matches no queued output buffer leaves processed_buf_num, error_buf_num,
\* sequence and the state unchanged
UnresolvableLeavesCounters ==
    [][\A info \in Infos :
        (Len(pending) > 0 /\ Unresolvable(Inst, info) /\ FinishEncodeOn(info))
            => UNCHANGED <<processed_buf_num, error_buf_num, sequence, state>>]_vars

\* an input buffer was dropped by such a completion and nothing was counted
DroppedCompletionSeen ==
    /\ src_lost # {}
    /\ processed_buf_num = 0 /\ sequence = 0
    /\ state = "PIC_RUN" /\ ~job_running

\* the encode cycle whose picture command the firmware rejects
RejectedCycle == wave6_vpu_enc_start_encode(Inst, 0, -5)

\* C5: when the firmware rejects a submission that has both an input and an
\* output buffer attached, both buffers are retired as ERROR, the state
\* becomes STOP and error_buf_num grows by exactly 1
RejectedRetiresBoth ==
    [][(DeviceRunWith(0, -5) /\ RejectedCycle.res = "submit_fail"
            /\ RejectedCycle.src # NoBuf)
        => /\ Retired("src", RejectedCycle.src, "ERROR") \in done'
           /\ [Retired("dst", RejectedCycle.dst, "ERROR")
                    EXCEPT !.sequence = sequence] \in done'
           /\ state' = "STOP"
           /\ error_buf_num' = error_buf_num + 1]_vars

\* the buffers the rejected cycle had selected and marked consumed
SelectedBuffers(r) ==
    {[Retired("dst", r.dst, "ERROR") EXCEPT !.sequence = sequence]}
        \cup (IF r.src = NoBuf THEN {} ELSE {Retired("src", r.src, "ERROR")})

\* C6: on a rejected submission the buffers retired as ERROR are exactly
\* the input and output buffer selected for that request, whatever the two
\* queues hold
RejectedRetiresSelected ==
    [][(DeviceRunWith(0, -5) /\ RejectedCycle.res = "submit_fail")
        => done' = SelectedBuffers(RejectedCycle)]_vars

\* a step that hands an end-of-stream request to the firmware
EosSubmitted ==
    /\ Len(pending') > Len(pending)
    /\ pending'[Len(pending')].src_end

\* a step that finishes the outstanding end-of-stream request
EosFinished ==
    /\ Len(pending) = 1 /\ pending[1].src_end
    /\ Len(pending') = 0

\* C7: with three input buffers queued and a stop command after them, an
\* end-of-stream request is submitted only after the third input buffer has
\* completed, and only one: none follows the drain marker; on the encode-end
\* completion the output buffer of the request is retired flagged LAST and
\* the state is PIC_RUN with eos set
DrainAfterThreeInputs ==
    [][/\ EosSubmitted =>
            /\ src_buffered /\ ~drained
            /\ queued_src_buf_num = ScenarioInputs
            /\ processed_buf_num = ScenarioInputs
            /\ src_q = <<>>
       /\ drained => Len(pending') <= Len(pending)
       /\ EosFinished =>
            /\ done' = {[Retired("dst", pending[1].dst, "DONE")
                            EXCEPT !.last = TRUE, !.payload = "zero"]}
            /\ state' = "PIC_RUN" /\ eos' /\ drained']_vars

\* the three inputs are processed and the drain marker has just been handled
ScenarioDrained ==
    /\ processed_buf_num = ScenarioInputs
    /\ JustDrained
    /\ ~src_buffered /\ Len(pending) = 0

SeqInitTimeoutTearsDown ==
    [][\A complete_ret \in {0, -5} :
        (state = "OPEN" /\ StartStreamingInitWith(0, TRUE, complete_ret))
            => /\ wave6_vpu_enc_initialize_instance(0, TRUE, complete_ret).ret # 0
               /\ state' = "NONE"
               /\ ss'.ret # 0]_vars
\* the firmware has answered an end-of-stream request, submitted after an
\* accepted stop command, with the encode-end recon index
EosAnswered ==
    /\ irq # None
    /\ Len(pending) = 1 /\ pending[1].src_end
    /\ wave6_vpu_both_queues_are_streaming
    /\ ~irq.error /\ irq.info_ret = 0
    /\ irq.recon_frame_index = RECON_IDX_FLAG_ENC_END

\* ... and the bitstream address of the answer is that of a queued output
\* buffer
EosAnsweredResolvable ==
    /\ EosAnswered
    /\ wave6_get_dst_buf_by_addr(dst_q, irq.bitstream_buffer) # 0

\* an output buffer with zero payload and the LAST flag has just been
\* retired and eos is recorded
LastRetiredEos ==
    /\ eos
    /\ \E r \in done : r.q = "dst" /\ r.last /\ r.payload = "zero"

\* C8 (as stated): once the firmware answers an end-of-stream request with
\* the encode-end recon index, eventually a zero-payload output buffer
\* flagged LAST is retired and eos is recorded
EncEndLeadsToLast == EosAnswered ~> LastRetiredEos

\* C8 (amended): once the firmware answers an end-of-stream request with the
\* encode-end recon index and the bitstream address of a queued output
\* buffer, eventually a zero-payload output buffer flagged LAST is retired
\* and eos is recorded
ResolvableEncEndLeadsToLast == EosAnsweredResolvable ~> LastRetiredEos

\* the drain marker has just been handled for an answered end-of-stream
\* request while the stop command was in force
StopDrained ==
    /\ LastRetiredEos
    /\ drained /\ state = "PIC_RUN" /\ ~src_buffered
    /\ wave6_vpu_both_queues_are_streaming

\* nothing of the instance's scratch, frame or auxiliary buffers is allocated
NothingAllocated == ~ar_vbuf /\ frame_vbuf = 0 /\ aux_vbuf = NoAux

\* C11 (as stated): when start_streaming, run with the peer queue streaming,
\* is about to return, the instance is fully initialized (PIC_RUN or STOP)
\* or fully torn down (NONE with nothing allocated)
StartStreamingReturnsWhole ==
    ss.pc = "exit" =>
        \/ state \in {"PIC_RUN", "STOP"}
        \/ state = "NONE" /\ NothingAllocated

\* C12: a step that ran wave6_vpu_enc_destroy_instance, whatever the close
\* command returned, ends in state NONE with the scratch buffer, every frame
\* buffer and every auxiliary buffer released
DestroyAlwaysTearsDown ==
    closed # "none" => state = "NONE" /\ NothingAllocated

\* the instance has just been destroyed by a failed start_streaming although
\* the close command failed
DestroyedThoughCloseFailed ==
    /\ closed = "failed"
    /\ ss.pc = "exit" /\ ss.ret # 0
    /\ state = "NONE" /\ NothingAllocated

\* C13: whenever start_streaming is about to call wave6_vpu_enc_prepare_fb,
\* every failing outcome of the call (any position of the frame and
\* auxiliary allocations and registrations) returns an error with no frame
\* or auxiliary buffer left allocated and without advancing to PIC_RUN
PrepareFbFailureReleasesAll ==
    (ss.pc = "prepare" /\ state = "INIT_SEQ") =>
        \A o \in PrepareOutcomes :
            o[1] # "none" =>
                LET p == wave6_vpu_enc_prepare_fb(Res, o[1], o[2]) IN
                /\ p.ret # 0
                /\ p.res.frame = 0 /\ p.res.aux = NoAux
                /\ p.state # "PIC_RUN"

\* start_streaming is leaving with the error of a failed prepare_fb (the
\* only failure after which the instance is closed with -ENOMEM)
PrepareFbFailedSeen ==
    /\ ss.pc = "exit" /\ ss.ret = -12 /\ closed # "none"
    /\ frame_vbuf = 0 /\ aux_vbuf = NoAux
    /\ state # "PIC_RUN"

\* C14: handling a completion event with the error flag set faults the input
\* and the output queue, sets the state to STOP and sets eos; it gives no
\* buffer back and takes none off the ready queues
ErrorCompletionFaultsQueues ==
    [][\A info \in Infos :
        (Len(pending) > 0 /\ info.error /\ FinishEncodeOn(info)) =>
            /\ src_error' /\ dst_error'
            /\ state' = "STOP" /\ eos'
            /\ done' = {}
            /\ src_q' = src_q /\ dst_q' = dst_q /\ src_lost' = src_lost]_vars

\* an error completion has been handled: both queues are faulted and the
\* buffers of the failed request are still on the ready queues, consumed
ErrorCompletionSeen ==
    /\ src_error /\ dst_error /\ state = "STOP" /\ eos
    /\ pending = <<>> /\ ~job_running
    /\ \E k \in 1 .. Len(src_q) : src_q[k].consumed
    /\ \E k \in 1 .. Len(dst_q) : dst_q[k].consumed

\* every buffer of a ready queue is marked consumed (or the queue is empty)
AllConsumed(q) == \A k \in 1 .. Len(q) : q[k].consumed

\* the instance has no unconsumed output buffer, or no unconsumed input
\* buffer while its state is not STOP
CycleAborts ==
    AllConsumed(dst_q) \/ (AllConsumed(src_q) /\ state # "STOP")

\* C15: an encode cycle that finds no unconsumed output buffer, or no
\* unconsumed input buffer while the state is not STOP, hands no picture
\* request to firmware, gives no buffer back and leaves the consumed marks,
\* the state and the counters as they were, whatever the firmware would
\* answer to a picture command
AbortedCycleChangesNothing ==
    CycleAborts =>
        \A submit_ret \in {0, -5} :
            LET r == wave6_vpu_enc_start_encode(Inst, 0, submit_ret) IN
            /\ r.submit = <<>>
            /\ r.done = {}
            /\ r.inst = Inst
            /\ r.src = NoBuf /\ r.dst = NoBuf

\* a cycle is run that aborts: only consumed buffers wait on a ready queue
AbortingCycleRuns ==
    /\ JobReady /\ CycleAborts
    /\ pending = <<>>
    /\ \/ Len(dst_q) > 0 /\ AllConsumed(dst_q) /\ ~AllConsumed(src_q)
       \/ Len(src_q) > 0 /\ AllConsumed(src_q) /\ ~AllConsumed(dst_q)

\* the cycle r built an end-of-stream request (source-end flag, no source
\* frame) and handed it to the firmware, which accepted or rejected it
EosHanded(r) ==
    r.res \in {"submitted", "submit_fail"} /\ r.src = NoBuf

\* C16: an encode cycle hands an end-of-stream request to the firmware if
\* and only if it gets to select buffers, an unconsumed output buffer is
\* queued, no unconsumed input buffer is queued and the state is STOP; the
\* request names the oldest unconsumed output buffer and no input buffer,
\* and when it is accepted that output buffer is the only buffer newly
\* marked consumed
EosRequestIffStopAndNoInput ==
    \A seq_ret \in SeqParamResults, submit_ret \in {0, -5} :
        LET r == wave6_vpu_enc_start_encode(Inst, seq_ret, submit_ret)
            d == FirstUnconsumed(dst_q)
        IN  /\ EosHanded(r) <=>
                    /\ seq_ret = 0
                    /\ ~AllConsumed(dst_q)
                    /\ AllConsumed(src_q)
                    /\ state = "STOP"
            /\ EosHanded(r) => r.dst = dst_q[d].idx
            /\ (EosHanded(r) /\ submit_ret = 0) =>
                    /\ r.submit = <<[src |-> NoBuf, dst |-> dst_q[d].idx,
                                     src_end |-> TRUE, force_idr |-> FALSE,
                                     roi |-> NoMap, csc |-> NoCsc]>>
                    /\ r.inst.dst_q = SetConsumed(dst_q, d)
                    /\ r.inst.src_q = src_q
            /\ \A k \in 1 .. Len(r.submit) :
                    r.submit[k].src_end <=> r.submit[k].src = NoBuf

\* an end-of-stream request is with the firmware: state STOP, its output
\* buffer marked consumed, no unconsumed input buffer
EosRequestOutstanding ==
    /\ Len(pending) = 1 /\ pending[1].src_end /\ pending[1].src = NoBuf
    /\ state = "STOP" /\ AllConsumed(src_q)
    /\ \E k \in 1 .. Len(dst_q) :
            dst_q[k].idx = pending[1].dst /\ dst_q[k].consumed

\* C17: no buffer on a ready queue has been selected for more than one
\* picture request since it was queued, and the encode cycle only ever
\* selects a buffer that is not marked consumed
SelectedAtMostOnce ==
    /\ \A k \in 1 .. Len(src_q) : src_q[k].picks <= 1
    /\ \A k \in 1 .. Len(dst_q) : dst_q[k].picks <= 1
    /\ \A seq_ret \in SeqParamResults, submit_ret \in {0, -5} :
            LET r == wave6_vpu_enc_start_encode(Inst, seq_ret, submit_ret) IN
            /\ \A k \in 1 .. Len(src_q) :
                    src_q[k].idx = r.src => ~src_q[k].consumed
            /\ \A k \in 1 .. Len(dst_q) :
                    dst_q[k].idx = r.dst => ~dst_q[k].consumed

\* a cycle is about to run while a consumed and an unconsumed buffer wait on
\* each ready queue: the consumed ones were selected once and are skipped
ConsumedBufferSkipped ==
    /\ JobReady
    /\ ~AllConsumed(src_q) /\ ~AllConsumed(dst_q)
    /\ src_q[1].consumed /\ src_q[1].picks = 1
    /\ dst_q[1].consumed /\ dst_q[1].picks = 1

\* a step that hands a picture request to the firmware
Submits == Len(pending') > Len(pending)

\* an accepted stop command is in force: src_buffered is set by the stop
\* command and cleared by the drain marker, by stop_streaming of the input
\* queue and by release
StopInForce == src_buffered

\* C18 (as stated): after a stop command accepted while both queues stream
\* the state is STOP and every request submitted while the stop is in force
\* is an end-of-stream request
OnlyEosAfterStop ==
    [][/\ (EncoderCmd("STOP") /\ wave6_vpu_both_queues_are_streaming)
            => state' = "STOP"
       /\ (StopInForce /\ Submits) => pending'[Len(pending')].src_end]_vars

\* C18 (amended): after a stop command accepted while both queues stream the
\* state is STOP and stays STOP while the stop is in force; a cycle run then
\* still submits the oldest unconsumed input buffer if there is one, and
\* submits an end-of-stream request exactly when there is none
InputsThenEosAfterStop ==
    [][/\ (EncoderCmd("STOP") /\ wave6_vpu_both_queues_are_streaming)
            => (state' = "STOP" /\ StopInForce')
       /\ StopInForce => state = "STOP"
       /\ (StopInForce /\ Submits) =>
            LET req == pending'[Len(pending')]
                s == FirstUnconsumed(src_q)
            IN  /\ req.src_end <=> AllConsumed(src_q)
                /\ ~req.src_end => req.src = src_q[s].idx]_vars

\* an input buffer is with the firmware while the stop is in force
InputSubmittedAfterStop ==
    /\ StopInForce /\ state = "STOP"
    /\ Len(pending) = 1 /\ ~pending[1].src_end
    /\ wave6_vpu_both_queues_are_streaming

\* C19 (as stated): every step that changes the state, the counters, eos or
\* the error-recovery flag of the instance runs with the per-device lock
\* held
MutationsUnderDevLock == [][inst_vars' # inst_vars => dev_locked']_vars

\* what wave6_update_seq_param returns when the sequence-change command is
\* issued, reports a change, and the wait for its completion times out
SeqChangeTimeoutResult == wave6_update_seq_param(0, TRUE, TRUE)

\* C20 (as stated): an encode cycle in which the wait for the
\* sequence-change completion times out is aborted: it submits no picture
\* request and selects no buffer (wave6_update_seq_param having returned an
\* error)
SeqChangeTimeoutAbortsCycle ==
    [][\A submit_ret \in {0, -5} :
        DeviceRunWith(SeqChangeTimeoutResult, submit_ret) =>
            /\ pending' = pending
            /\ src_q' = src_q /\ dst_q' = dst_q]_vars
CodecRectInsideSource ==
    /\ fmt.codec_rect.left + fmt.codec_rect.width <= fmt.src_fmt.width
    /\ fmt.codec_rect.top + fmt.codec_rect.height <= fmt.src_fmt.height

\* C23: the stored crop rectangle lies inside the source format
StoredCropInsideSource ==
    /\ 0 <= fmt.crop.left
    /\ fmt.crop.left + fmt.crop.width <= fmt.src_fmt.width
    /\ 0 <= fmt.crop.top
    /\ fmt.crop.top + fmt.crop.height <= fmt.src_fmt.height

\* C24: a crop request that is not applied (no width or height left after
\* rounding, or less than a minimum picture between its origin and the edge
\* of the source) leaves the crop, the codec rectangle, the destination
\* format and the ROI geometry as they were
UnappliedCropChangesNothing ==
    \A flags \in SUBSET {"GE", "LE"}, rect \in CropRequests :
        LET r == wave6_vpu_enc_s_selection(fmt, TRUE, flags, rect)
            rr == SelectionRounded(flags, rect)
        IN
        (\/ rr.width = 0 \/ rr.height = 0
         \/ u32_less(fmt.src_fmt.width - rr.left, W6_MIN_ENC_PIC_WIDTH)
         \/ u32_less(fmt.src_fmt.height - rr.top, W6_MIN_ENC_PIC_HEIGHT)) =>
            /\ r.fmt.crop = fmt.crop
            /\ r.fmt.codec_rect = fmt.codec_rect
            /\ r.fmt.dst_fmt = fmt.dst_fmt
            /\ r.fmt.roi_info = fmt.roi_info

\* a crop other than the whole source is stored, and requests of both kinds
\* would not be applied to it: one of no width after rounding, one with an
\* origin too close to the right edge of the source
UnappliedCropRequested ==
    /\ fmt.crop # Rect(0, 0, fmt.src_fmt.width, fmt.src_fmt.height)
    /\ fmt.src_fmt.width # W6_DEF_ENC_PIC_WIDTH
    /\ \E rect \in CropRequests :
        /\ SelectionRounded({}, rect).width = 0
        /\ ~wave6_vpu_enc_s_selection(fmt, TRUE, {}, rect).applied
    /\ \E rect \in CropRequests :
        LET r == SelectionRounded({}, rect) IN
        /\ r.width # 0 /\ r.height # 0
        /\ r.left >= 0 /\ r.left < fmt.src_fmt.width
        /\ ~wave6_vpu_enc_s_selection(fmt, TRUE, {}, rect).applied

\* C25: the stored ROI geometry is the geometry of the current standard and
\* codec rectangle size
RoiInfoMatchesGeometry ==
    fmt.roi_info = wave6_vpu_enc_get_roi_info(fmt.std, fmt.codec_rect.width,
                                              fmt.codec_rect.height)

\* the standard was set to H.264 and the codec rectangle is that of a crop
RoiInfoOfCroppedAvc ==
    /\ fmt.std = "W_AVC_ENC"
    /\ fmt.crop.left > 0
    /\ fmt.codec_rect.width # fmt.src_fmt.width
    /\ fmt.roi_info.ctu.width = 16
    /\ fmt.roi_info.num_ctu # OpenFmt.roi_info.num_ctu

SameGeometryInputs ==
    /\ fmt'.std = fmt.std
    /\ fmt'.codec_rect.width = fmt.codec_rect.width
    /\ fmt'.codec_rect.height = fmt.codec_rect.height

\* C26: a step that leaves the standard and the size of the codec rectangle
\* as they were leaves the ROI geometry as it was, and the instance ROI map
\* too unless the step is the write of a user map: recomputing the geometry
\* by set-format or set-crop does not zero a map written before
RecomputeSameGeometryKeepsMap ==
    [][SameGeometryInputs =>
           /\ fmt'.roi_info = fmt.roi_info
           /\ (fmt'.qp_map = fmt.qp_map \/ SCtrlRoiMap)]_vars

\* a user map was written into the instance ROI map, and a crop request
\* would move the crop without changing the size of the codec rectangle
MapWrittenBeforeRecompute ==
    /\ fmt.qp_map # 0
    /\ \E rect \in CropRequests :
        LET f == wave6_vpu_enc_s_selection(fmt, TRUE, {}, rect).fmt IN
        /\ f.crop # fmt.crop
        /\ f.codec_rect.width = fmt.codec_rect.width
        /\ f.codec_rect.height = fmt.codec_rect.height

CodecSizeChanges ==
    \/ fmt'.codec_rect.width # fmt.codec_rect.width
    \/ fmt'.codec_rect.height # fmt.codec_rect.height

\* C27 as stated: every change of the width or height of the codec
\* rectangle changes the ROI map size and zeroes the instance ROI map
SizeChangeAlwaysClearsMap ==
    [][CodecSizeChanges =>
           /\ fmt'.roi_info.custom_map_size # fmt.roi_info.custom_map_size
           /\ fmt'.qp_map = 0]_vars

\* C27, amended: a change of the width or height of the codec rectangle that
\* changes the ROI geometry zeroes the instance ROI map; one that leaves the
\* ROI geometry as it is leaves the ROI map size and the map as they are
GeometryChangeClearsMap ==
    [][CodecSizeChanges =>
           IF fmt'.roi_info # fmt.roi_info
           THEN fmt'.qp_map = 0
           ELSE /\ fmt'.roi_info.custom_map_size = fmt.roi_info.custom_map_size
                /\ fmt'.qp_map = fmt.qp_map]_vars

\* a user map is in the instance ROI map, one crop request would change the
\* size of the codec rectangle and the ROI geometry, another the size of the
\* codec rectangle only
MapWrittenBeforeSizeChange ==
    /\ fmt.qp_map # 0
    /\ \E rect \in CropRequests :
        LET f == wave6_vpu_enc_s_selection(fmt, TRUE, {}, rect).fmt IN
        /\ f.codec_rect.width # fmt.codec_rect.width
        /\ f.roi_info # fmt.roi_info
        /\ f.roi_info.custom_map_size # fmt.roi_info.custom_map_size
    /\ \E rect \in CropRequests :
        LET f == wave6_vpu_enc_s_selection(fmt, TRUE, {}, rect).fmt IN
        /\ f.codec_rect.height # fmt.codec_rect.height
        /\ f.roi_info = fmt.roi_info

NewRequest == Len(pending') > Len(pending)

\* C29: a picture request that is submitted with an ROI map carries the
\* content the instance ROI map had when its input buffer was queued
SubmittedMapIsQueuedMap ==
    \A k \in 1..Len(pending) :
        pending[k].roi.alloc => pending[k].roi.data = pending[k].roi.queued

\* C30: a picture request that is submitted with an ROI map has a map of the
\* ROI map size of the instance's geometry at the time
SubmittedMapSizeIsCurrent ==
    [][NewRequest =>
           LET req == pending'[Len(pending')] IN
           req.roi.alloc => req.roi.size = fmt.roi_info.custom_map_size]_vars

(* ------------------- error recovery and key frames --------------------- *)
\* a step in which a resolved completion reports a failed picture
FailedPictureReported ==
    \E x \in done' :
        x.q = "dst" /\ x.st = "ERROR" /\ x.payload = "bitstream_size"

\* the picture request the encode cycle builds in the current state
BuiltRequest == wave6_vpu_enc_start_encode(Inst, 0, 0)

\* C31: a resolved completion that reports an encoding failure sets the
\* error-recovery flag; the encode cycle that next hands an input picture to
\* the firmware asks for a forced IDR and clears the flag, whether or not the
\* firmware accepts the command; a picture is forced only for the flag or for
\* the key-frame mark of its buffer; the flag changes at no other step
FailedPictureForcesNextIdr ==
    /\ [][FailedPictureReported => error_recovery']_vars
    /\ [](JobReady /\ BuiltRequest.src # NoBuf =>
            /\ BuiltRequest.submit[1].force_idr
                 = (error_recovery
                      \/ buf_map[BuiltRequest.src].force_key_frame)
            /\ \A submit_ret \in {0, -5} :
                 ~wave6_vpu_enc_start_encode(Inst, 0, submit_ret)
                        .inst.error_recovery)
    /\ [][error_recovery' # error_recovery =>
            IF error_recovery' THEN FailedPictureReported
            ELSE \E submit_ret \in {0, -5} : DeviceRunWith(0, submit_ret)]_vars

\* after a failed picture, the next input picture is with the firmware as a
\* forced IDR although its buffer carries no key-frame mark, and the flag is
\* clear again
ForcedIdrAfterFailure ==
    /\ error_buf_num > 0
    /\ Len(pending) = 1 /\ ~pending[1].src_end
    /\ pending[1].force_idr
    /\ ~buf_map[pending[1].src].force_key_frame
    /\ ~error_recovery

\* a step that queues an input buffer
InputQueued == queued_src_buf_num' = queued_src_buf_num + 1

\* the input buffer the step has queued
LastQueued == src_q'[Len(src_q')].idx

\* C32: a force-key-frame write sets the pending request of the instance and
\* nothing else sets it; the next input buffer queued takes the request as
\* its mark and clears it, the marks of the other buffers stay as they are
\* and marks change at no other step, so a buffer queued later is marked only
\* by a later write; a marked buffer is handed to the firmware as forced IDR
KeyFrameWriteMarksNextBuffer ==
    /\ [][(fmt'.force_key_frame /\ ~fmt.force_key_frame)
             <=> (SCtrlForceKeyFrame /\ ~fmt.force_key_frame)]_vars
    /\ [][InputQueued =>
            /\ buf_map'[LastQueued].force_key_frame = fmt.force_key_frame
            /\ ~fmt'.force_key_frame
            /\ \A b \in SrcIdx \ {LastQueued} :
                 buf_map'[b].force_key_frame = buf_map[b].force_key_frame]_vars
    /\ [][~InputQueued =>
            \A b \in SrcIdx :
                 buf_map'[b].force_key_frame = buf_map[b].force_key_frame]_vars
    /\ [](JobReady /\ BuiltRequest.src # NoBuf
             /\ buf_map[BuiltRequest.src].force_key_frame
            => BuiltRequest.submit[1].force_idr)

\* no picture has failed; the buffer queued after the write is with the
\* firmware as forced IDR and the buffer queued after it is not marked
OnlyFirstBufferForced ==
    /\ error_buf_num = 0 /\ ~error_recovery
    /\ ~fmt.force_key_frame
    /\ Len(pending) = 1 /\ ~pending[1].src_end /\ pending[1].force_idr
    /\ buf_map[pending[1].src].force_key_frame
    /\ \E k \in 1 .. Len(src_q) :
          /\ src_q[k].idx # pending[1].src
          /\ ~buf_map[src_q[k].idx].force_key_frame

\* a step of the completion handler: the outstanding request is finished
CompletionHandled == Len(pending) > 0 /\ Len(pending') < Len(pending)

\* C33: a completion never takes an input buffer off the input queue without
\* giving it back: every input buffer that leaves the queue in a completion
\* step is among the buffers the step retires
CompletionRetiresRemovedInput ==
    [][CompletionHandled =>
        \A b \in SrcIdx :
            (PosOfIdx(src_q, b) # 0 /\ PosOfIdx(src_q', b) = 0)
                => \E x \in done' : x.q = "src" /\ x.idx = b]_vars

\* a step in which a resolved completion retires output buffer x
ResolvedOutput(x) == x \in done' /\ x.q = "dst" /\ x.payload = "bitstream_size"

SequenceIsProcessedCount == sequence = processed_buf_num

\* a session in which one picture was encoded and one was given back by a
\* rejected submission: both counters stand at 2
BothCountersAfterFailure ==
    /\ sequence = 2 /\ processed_buf_num = 2
    /\ error_buf_num = 1 /\ state = "STOP"

\* C36: every completion event handed to wave6_vpu_enc_finish_encode ends
\* the job that was running and takes exactly the one outstanding request
\* off, whatever the event reports: an error, a failed information fetch, a
\* resolved picture, a dropped anomaly, the drain marker or none of these
CompletionEndsJob ==
    [][CompletionHandled =>
        /\ job_running /\ ~job_running'
        /\ pending' = Tail(pending)
        /\ irq' = None]_vars

\* a completion whose input buffer could not be retired has been dropped and
\* the job has ended all the same
JobEndedAfterDroppedCompletion ==
    /\ src_lost # {} /\ pending = <<>> /\ ~job_running

\* a step that stops the last streaming queue
LastQueueStopped ==
    /\ src_streaming \/ dst_streaming
    /\ ~src_streaming' /\ ~dst_streaming'

\* C37: the step that stops the second of the two queues, in either order
\* and from any state, leaves the instance in state NONE with no scratch,
\* frame or auxiliary buffer, and so is every state in which no queue
\* streams and no start is under way
BothStoppedTornDown ==
    /\ [][LastQueueStopped => state' = "NONE" /\ NothingAllocated']_vars
    /\ []((~src_streaming /\ ~dst_streaming /\ ss.pc = "idle")
            => state = "NONE" /\ NothingAllocated)

\* the second queue has just been stopped with buffers still queued; the
\* close command failed and the instance is torn down all the same
TornDownAfterFailedClose ==
    /\ ~src_streaming /\ ~dst_streaming /\ ss.pc = "idle"
    /\ closed = "failed" /\ done # {}
    /\ state = "NONE" /\ NothingAllocated

(* ----------------------- offsets of the ROI map ------------------------ *)
\* the offsets wave6_vpu_enc_set_roi_map writes for the geometry roi when
\* count is num_ctu
RoiMapOffsets(roi) ==
    {RoiMapOffset(roi, i, j) :
        i \in 0 .. roi.num_ctu_row - 1, j \in 0 .. roi.num_ctu_col - 1}

\* C38: for the geometry the instance holds, the CTUs are written to
\* pairwise different offsets, each below custom_map_size and inside the
\* instance map allocated at open
RoiMapWritesInsideMap ==
    /\ Cardinality(RoiMapOffsets(fmt.roi_info)) = fmt.roi_info.num_ctu
    /\ \A o \in RoiMapOffsets(fmt.roi_info) :
          o < fmt.roi_info.custom_map_size /\ o < custom_qp_map_size


(* ------------------------- colour conversion --------------------------- *)
\* C39: every picture request built for an RGB source carries a coefficient
\* set: its nine coefficients are not all 0
RgbRequestHasCoefficients ==
    \A k \in 1 .. Len(pending) :
        pending[k].csc.rgb => pending[k].csc.coef # NoCsc.coef

(* ----------------------------- mirroring ------------------------------- *)
\* a step in which start_streaming runs the sequence initialization
SeqInitRuns == ss.pc = "init" /\ state = "OPEN" /\ ss'.pc # "init"

\* C40: the mirror direction handed to the encoder at sequence
\* initialization is made of the values last written to the two flip
\* controls: bit 1 is the horizontal flip, bit 0 the vertical flip
MirrorIsLastWrittenFlips ==
    [][SeqInitRuns =>
        MirrorAtSeqInit(fmt) = 2 * fmt.hflip + fmt.vflip]_vars

=============================================================================
